---- MODULE Spec2Model ----
(***************************************************************************)
(* State-machine model of the HDC encoding core of Samdb:                  *)
(*   src/src/hdc/numeric_encoder.py  (NumericEncoder)                      *)
(*   src/src/hdc/symbol_encoder.py   (SymbolEncoder)                       *)
(* Python lists are 0-based; sequences here are 1-based, so the list       *)
(* position p is the sequence index p + 1.  The module-level PRNG is       *)
(* modelled by the outcome it produces: every random.sample and            *)
(* random.choice returns one of the values the call can return, the one    *)
(* the stream `prng` the generator was seeded to selects.                  *)
(***************************************************************************)
EXTENDS Integers, Sequences, FiniteSets, TLC

VARIABLES
    numeric_encoder,   \* None, or Some(the fields of the NumericEncoder under test)
    num_result,        \* what the last NumericEncoder call was given and returned
    num_encodings,     \* numeric input -> the pattern its first encode returned
    num_failed,        \* TRUE once a NumericEncoder.encode call has raised
    symbol_encoder,    \* None, or Some(the fields of the SymbolEncoder under test)
    sym_result,        \* what the last SymbolEncoder call was given and returned
    sym_encodings,     \* symbol -> the pattern its first encode returned, and the
                       \* population argument of that call
    prng,              \* the stream random.seed(seed) left the generator on
    esdrs,             \* name of an ESDR object -> its fields
    field_encoder,     \* None, or Some(the SymbolEncoder of the field names)
    esdr_result,       \* what the last ESDR call was given and returned
    esdr_calls,        \* the number of ESDR calls made
    generator,         \* None, or Some(the state of the module-level generator of
                       \* `random`) in the runs that follow its state
    solo_encoder,      \* None, or Some(the SymbolEncoder and the generator of the
                       \* run that makes the same encode calls and no other)
    store,             \* the tables of the database
    symbol_encoder_id  \* the _id of the SymbolEncoder under test

esdr_vars == <<esdrs, field_encoder, esdr_result, esdr_calls>>

rng_vars == <<generator, solo_encoder>>

store_vars == <<store, symbol_encoder_id>>

vars == <<numeric_encoder, num_result, num_encodings, num_failed,
          symbol_encoder, sym_result, sym_encodings, prng, esdr_vars,
          rng_vars, store_vars>>

-----------------------------------------------------------------------------
(* Bounds of the model *)

\* NumericEncoder fixture whose codewords are long enough for list position 39
BigDimension == 200
BigSparsityPct == 20
\* NumericEncoder fixtures with short codewords
SmallDimension == 8
SmallSparsityPct == 40
\* quantise_step of the second small fixture
SmallStep == 19
\* SymbolEncoder fixture
SymDimension == 3
SymSparsityPct == 67
\* the three encoders handed to ESDR.set_value
EsdrDimension == 2
EsdrSparsityPct == 50
\* the ESDR calls made in one run
MaxEsdrCalls == 3
\* the SymbolEncoder that is persisted, and the rows samdb.symbol_to_bits may
\* come to hold
StoreDimension == 2
StoreSparsityPct == 50
MaxStoreRows == 4

\* numeric inputs of encode (values of test_numeric_encoder.py, lines 23-28)
NumericInputs == {80, 100, 120}

\* symbols of encode (symbols of test_symbol_encoder.py, lines 21-24)
Symbols == {"hello", "goodbye"}

\* the streams of the generator the NumericEncoder fixtures are seeded to:
\* "fresh" draws a bit no codeword has used while one is left, "lo" the lowest
\* bit it may draw
Tapes == {"fresh", "lo"}

-----------------------------------------------------------------------------
(* Python values *)

\* Optional[...]: None and a present value
None == << >>
Some(v) == << v >>

\* the weight 1.0, in units of one half
One == 2

\* an empty dict
EmptyDict == [x \in {} |-> 0]

Range(s) == {s[i] : i \in DOMAIN s}

MaxOf(S) == CHOOSE x \in S : \A y \in S : y <= x
MinOf(S) == CHOOSE x \in S : \A y \in S : x <= y

\* int(a / b) for b > 0: truncation toward zero
IntTrunc(a, b) == IF a >= 0 THEN a \div b ELSE -((-a) \div b)

\* int(sparsity * dimension), the sparsity given in percent
IntOfProduct(sparsity_pct, dimension) == (sparsity_pct * dimension) \div 100

\* {bit: 1.0 for bit in bit_list}: keys in first-insertion order, each once
RECURSIVE DictOfBits(_)
DictOfBits(bit_list) ==
    IF bit_list = << >> THEN << >>
    ELSE LET front == DictOfBits(SubSeq(bit_list, 1, Len(bit_list) - 1))
             bit == bit_list[Len(bit_list)]
         IN IF \E i \in DOMAIN front : front[i].bit = bit
            THEN front
            ELSE Append(front, [bit |-> bit, weight |-> One])

\* the keys of a pattern
Keys(pattern) == {pattern[i].bit : i \in DOMAIN pattern}

\* an optional population argument: None, or a pattern's key set
NoPopulation == [given |-> FALSE, keys |-> {}]
Population(keys) == [given |-> TRUE, keys |-> keys]

-----------------------------------------------------------------------------
(* NumericEncoder *)

\* NumericEncoder.__init__
LowerBitIndexInit == 39

NumericEncoder(dimension, sparsity_pct, quantise_step) ==
    [dimension |-> dimension,
     max_nbits |-> IF IntOfProduct(sparsity_pct, dimension) >= 1
                   THEN IntOfProduct(sparsity_pct, dimension) ELSE 1,
     q_value |-> EmptyDict,
     bits |-> EmptyDict,
     q_step |-> quantise_step,
     lower_bit_index |-> LowerBitIndexInit,
     upper_bit_index |-> 0,
     upper_q_value |-> None,
     lower_q_value |-> None,
     raised |-> "none"]

\* q_value = int(numeric / self._q_step) * self._q_step
Quantise(e, numeric) == IntTrunc(numeric, e.q_step) * e.q_step

\* a range one step short: the variant C4_WindowCovered must reject
QStepRangeShort(e) == e.q_step * (e.max_nbits - 2)

\* q_step_range = self._q_step * (self._max_nbits - 1)
QStepRange(e) == e.q_step * (e.max_nbits - 1)

\* a choice among the whole population, the bits of the current codeword
\* included: the variant C2_AdjacentDifferInOnePosition must reject
CandidatesAny(population, q_level_bits) == population

\* the bits random.choice can return: list(population - set(q_level_bits))
Candidates(population, q_level_bits) == population \ Range(q_level_bits)

\* random.choice(candidates): the tape selects which candidate comes out.
\* "fresh" is a bit no codeword of the encoder has used so far, when one exists.
Choice(candidates, e, tape) ==
    LET unused == candidates \ DOMAIN e.bits
    IN IF tape = "fresh" /\ unused # {} THEN MinOf(unused) ELSE MinOf(candidates)

\* the members of a set of integers in ascending order
RECURSIVE Ascending(_)
Ascending(S) == IF S = {} THEN << >> ELSE << MinOf(S) >> \o Ascending(S \ {MinOf(S)})

\* random.sample(list(population), k): k distinct bits in the order drawn, on
\* either tape the k lowest bits of the population in ascending order
RECURSIVE Sample(_, _, _)
Sample(population, k, tape) ==
    IF k = 0 THEN << >>
    ELSE << MinOf(population) >> \o Sample(population \ {MinOf(population)}, k - 1, tape)

\* the bit written to the position and to the one after it: the variant
\* C5_SharedAtLeast must reject
ReplaceAtPair(q_level_bits, index, bit) ==
    [q_level_bits EXCEPT ![index + 1] = bit,
                         ![((index + 1) % Len(q_level_bits)) + 1] = bit]

\* q_level_bits[index] = bit on a copy of the list (index is 0-based)
ReplaceAt(q_level_bits, index, bit) == [q_level_bits EXCEPT ![index + 1] = bit]

\* self._upper_bit_index += 1, wrapping to zero at the end of the vector
NextUpperBitIndex(e) ==
    IF e.upper_bit_index + 1 >= e.max_nbits THEN 0 ELSE e.upper_bit_index + 1

\* self._lower_bit_index -= 1, wrapping to max_nbits - 1 below zero
NextLowerBitIndex(e) ==
    IF e.lower_bit_index - 1 < 0 THEN e.max_nbits - 1 ELSE e.lower_bit_index - 1

\* the level the reverse index records for a codeword installed at curr_q_value
\* while encode(numeric) runs with q_value = q(numeric): the code appends q_value
IndexedLevel(q_value, curr_q_value) == q_value

\* if bit not in self._bits: self._bits[bit] = [level] else: .append(level)
AssignLevelToBit(bits, bit, level) ==
    IF bit \in DOMAIN bits
    THEN [bits EXCEPT ![bit] = Append(@, level)]
    ELSE (bit :> << level >>) @@ bits

\* for bit in self._q_value[curr_q_value]: ..., over q_level_bits[from..to]
RECURSIVE AssignLevelToBits(_, _, _, _, _)
AssignLevelToBits(bits, q_level_bits, level, from, to) ==
    IF from > to THEN bits
    ELSE IF from = to THEN AssignLevelToBit(bits, q_level_bits[from], level)
    ELSE LET mid == (from + to) \div 2
             half == AssignLevelToBits(bits, q_level_bits, level, from, mid)
         IN IF DOMAIN half = {} THEN half
            ELSE AssignLevelToBits(half, q_level_bits, level, mid + 1, to)

\* The while loops of encode keep the encoder e, curr_q_value and q_level_bits;
\* a loop that raised keeps the state it had reached.
LoopState(e, curr_q_value, q_level_bits) ==
    [e |-> e, curr_q_value |-> curr_q_value, q_level_bits |-> q_level_bits]

\* one pass of `while curr_q_value <= q_value + q_step_range` (upward extension
\* and cold start): random.choice raises IndexError on an empty list, and so
\* does the assignment when the index is outside the list
UpwardPass(loop, population, q_value, tape) ==
    LET e == loop.e
        candidates == Candidates(population, loop.q_level_bits)
    IN IF e.raised # "none" \/ loop.curr_q_value > q_value + QStepRange(e)
       THEN loop
       ELSE IF candidates = {} \/ e.upper_bit_index >= Len(loop.q_level_bits)
       THEN [loop EXCEPT !.e.raised = "IndexError"]
       ELSE LET new_bits == ReplaceAt(loop.q_level_bits, e.upper_bit_index,
                                      Choice(candidates, e, tape))
            IN LoopState([e EXCEPT !.upper_bit_index = NextUpperBitIndex(e),
                                   !.q_value = (loop.curr_q_value :> new_bits) @@ e.q_value,
                                   !.bits = AssignLevelToBits(e.bits, new_bits,
                                               IndexedLevel(q_value, loop.curr_q_value),
                                               1, Len(new_bits)),
                                   !.upper_q_value = Some(loop.curr_q_value)],
                         loop.curr_q_value + e.q_step,
                         new_bits)

\* one pass of `while curr_q_value >= q_value - q_step_range`
DownwardPass(loop, population, q_value, tape) ==
    LET e == loop.e
        candidates == Candidates(population, loop.q_level_bits)
    IN IF e.raised # "none" \/ loop.curr_q_value < q_value - QStepRange(e)
       THEN loop
       ELSE IF candidates = {} \/ e.lower_bit_index >= Len(loop.q_level_bits)
       THEN [loop EXCEPT !.e.raised = "IndexError"]
       ELSE LET new_bits == ReplaceAt(loop.q_level_bits, e.lower_bit_index,
                                      Choice(candidates, e, tape))
            IN LoopState([e EXCEPT !.lower_bit_index = NextLowerBitIndex(e),
                                   !.q_value = (loop.curr_q_value :> new_bits) @@ e.q_value,
                                   !.bits = AssignLevelToBits(e.bits, new_bits,
                                               IndexedLevel(q_value, loop.curr_q_value),
                                               1, Len(new_bits)),
                                   !.lower_q_value = Some(loop.curr_q_value)],
                         loop.curr_q_value - e.q_step,
                         new_bits)

\* n passes of a loop, the first half of them before the second; a loop that
\* raised stops, and a pass past the loop's exit condition changes nothing
RECURSIVE UpwardLoop(_, _, _, _, _)
UpwardLoop(loop, population, q_value, tape, n) ==
    IF n <= 0 THEN loop
    ELSE IF n = 1 THEN UpwardPass(loop, population, q_value, tape)
    ELSE LET half == UpwardLoop(loop, population, q_value, tape, n \div 2)
         IN IF half.e.raised # "none" THEN half
            ELSE UpwardLoop(half, population, q_value, tape, n - (n \div 2))

RECURSIVE DownwardLoop(_, _, _, _, _)
DownwardLoop(loop, population, q_value, tape, n) ==
    IF n <= 0 THEN loop
    ELSE IF n = 1 THEN DownwardPass(loop, population, q_value, tape)
    ELSE LET half == DownwardLoop(loop, population, q_value, tape, n \div 2)
         IN IF half.e.raised # "none" THEN half
            ELSE DownwardLoop(half, population, q_value, tape, n - (n \div 2))

\* the number of levels from one level to another, both included
LevelsBetween(from, to, q_step) ==
    IF to < from THEN 0 ELSE ((to - from) \div q_step) + 1

\* an upward extension that starts on the highest level itself: the variant
\* C7_EncodeIdempotent must reject
UpwardStartAtUpper(e) == e.upper_q_value[1]

\* curr_q_value = self._upper_q_value + self._q_step
UpwardStart(e) == e.upper_q_value[1] + e.q_step

\* the branch taken when self._upper_q_value is not None
Extend(e, population, q_value, tape) ==
    LET upper == e.upper_q_value[1]
        up == IF q_value + QStepRange(e) > upper
              THEN UpwardLoop(LoopState(e, UpwardStart(e), e.q_value[upper]),
                              population, q_value, tape,
                              LevelsBetween(UpwardStart(e),
                                            q_value + QStepRange(e), e.q_step)).e
              ELSE e
        lower == up.lower_q_value[1]
    IN IF up.raised # "none" THEN up
       ELSE IF q_value - QStepRange(e) < lower
       THEN DownwardLoop(LoopState(up, lower - e.q_step, up.q_value[lower]),
                         population, q_value, tape,
                         LevelsBetween(q_value - QStepRange(e),
                                       lower - e.q_step, e.q_step)).e
       ELSE up

\* the branch taken when no numeric has been encoded: random.sample raises
\* ValueError when the population holds fewer than max_nbits bits
ColdStart(e, population, q_value, tape) ==
    LET start == q_value - QStepRange(e)
        e0 == [e EXCEPT !.lower_q_value = Some(start)]
    IN IF Cardinality(population) < e.max_nbits
       THEN [e0 EXCEPT !.raised = "ValueError"]
       ELSE UpwardLoop(LoopState(e0, start, Sample(population, e.max_nbits, tape)),
                       population, q_value, tape,
                       LevelsBetween(start, q_value + QStepRange(e), e.q_step)).e

\* NumericEncoder.encode up to its return statement: the encoder it leaves
EncodeState(e, numeric, population, tape) ==
    LET q_value == Quantise(e, numeric)
        pool == IF population.given THEN population.keys ELSE 0 .. (e.dimension - 1)
    IN IF (q_value + QStepRange(e)) \notin DOMAIN e.q_value
          \/ (q_value - QStepRange(e)) \notin DOMAIN e.q_value
       THEN IF e.upper_q_value # None
            THEN Extend(e, pool, q_value, tape)
            ELSE ColdStart(e, pool, q_value, tape)
       ELSE e

\* return {bit: 1.0 for bit in self._q_value[q_value]}
EncodeReturn(e, numeric) ==
    IF e.raised # "none" THEN [raised |-> e.raised, pattern |-> << >>]
    ELSE IF Quantise(e, numeric) \notin DOMAIN e.q_value
    THEN [raised |-> "KeyError", pattern |-> << >>]
    ELSE [raised |-> "none", pattern |-> DictOfBits(e.q_value[Quantise(e, numeric)])]

\* NumericEncoder.decode: the body of `for q_value in self._bits[bit]`
DecodeLevel(acc, q_value, weight) ==
    LET w == IF q_value \in DOMAIN acc.q_values
             THEN acc.q_values[q_value] + weight
             ELSE weight
    IN IF w > acc.max_weight
       THEN [acc EXCEPT !.q_values = (q_value :> w) @@ acc.q_values,
                        !.max_q_value = Some(q_value),
                        !.max_weight = w]
       ELSE [acc EXCEPT !.q_values = (q_value :> w) @@ acc.q_values]

\* `for q_value in self._bits[bit]` over levels[from..to], in list order
RECURSIVE DecodeLevels(_, _, _, _, _)
DecodeLevels(acc, levels, from, to, weight) ==
    IF from > to THEN acc
    ELSE IF from = to THEN DecodeLevel(acc, levels[from], weight)
    ELSE LET mid == (from + to) \div 2
             half == DecodeLevels(acc, levels, from, mid, weight)
         IN IF half.raised # "none" THEN half
            ELSE DecodeLevels(half, levels, mid + 1, to, weight)

\* `for bit in bits` over pattern[from..to]: self._bits[bit] raises KeyError
\* for a bit that is no key of the reverse index
RECURSIVE DecodeBits(_, _, _, _, _)
DecodeBits(acc, e, pattern, from, to) ==
    IF from > to THEN acc
    ELSE IF from = to
    THEN IF pattern[from].bit \notin DOMAIN e.bits
         THEN [acc EXCEPT !.raised = "KeyError"]
         ELSE DecodeLevels(acc, e.bits[pattern[from].bit], 1,
                           Len(e.bits[pattern[from].bit]), pattern[from].weight)
    ELSE LET mid == (from + to) \div 2
             half == DecodeBits(acc, e, pattern, from, mid)
         IN IF half.raised # "none" THEN half
            ELSE DecodeBits(half, e, pattern, mid + 1, to)

\* q_value_distribution, sorted by q_value
Distribution(q_values) ==
    LET order == Ascending(DOMAIN q_values)
    IN [i \in DOMAIN order |-> << order[i], q_values[order[i]] >>]

Decode(e, pattern) ==
    LET acc == DecodeBits([q_values |-> EmptyDict, max_weight |-> 0,
                           max_q_value |-> None, raised |-> "none"],
                          e, pattern, 1, Len(pattern))
    IN [raised |-> acc.raised,
        max_q_value |-> acc.max_q_value,
        max_weight |-> acc.max_weight,
        distribution |-> Distribution(acc.q_values)]

-----------------------------------------------------------------------------
(* SymbolEncoder *)

\* SymbolEncoder.__init__ with restore=False
SymbolEncoder(dimension, sparsity_pct) ==
    [dimension |-> dimension,
     max_nbits |-> IF IntOfProduct(sparsity_pct, dimension) >= 1
                   THEN IntOfProduct(sparsity_pct, dimension) ELSE 1,
     symbols |-> EmptyDict,
     bits |-> EmptyDict]

\* a pool that is range(dimension) whatever the population: the variant
\* C25_SmallPoolRejected must reject
PoolOfDimension(e, population) == 0 .. (e.dimension - 1)

\* the pool of bits to select from
Pool(e, population) ==
    IF population.given THEN population.keys ELSE 0 .. (e.dimension - 1)

\* a sample drawn with replacement: the variant C6_Sparsity must reject
SampleOutcomesRepeating(pool, k) == [1..k -> pool]

\* what random.sample(pool, k) can return: every list of k distinct bits of pool
SampleOutcomes(pool, k) ==
    {s \in [1..k -> pool] : \A i, j \in 1..k : s[i] = s[j] => i = j}

\* the set of a bit replaced instead of extended: the variant
\* C27_ReverseIndexConsistent must reject
AssignSymbolToBitsAnew(bits, bit_list, symbol) ==
    [b \in Range(bit_list) |-> {symbol}] @@ bits

\* for bit in self._symbols[symbol]: self._bits[bit] = {symbol} / .add(symbol)
AssignSymbolToBits(bits, bit_list, symbol) ==
    [b \in Range(bit_list) |->
        IF b \in DOMAIN bits THEN bits[b] \cup {symbol} ELSE {symbol}] @@ bits

\* symbol in self._symbols
Known(e, symbol) == symbol \in DOMAIN e.symbols

\* self._symbols[symbol] = random.sample(pool, k=self._max_nbits) and the update
\* of the bit to symbol mapping, for the sample drawn
Install(e, symbol, sample) ==
    [e EXCEPT !.symbols = (symbol :> sample) @@ e.symbols,
              !.bits = AssignSymbolToBits(e.bits, sample, symbol)]

\* return {bit: 1.0 for bit in self._symbols[symbol]}
SymEncodeReturn(e, symbol) == DictOfBits(e.symbols[symbol])

\* the order in which iterating a set of symbols yields them: `order` lists
\* every symbol once, and the members of S come out in that order
RECURSIVE IterateSet(_, _)
IterateSet(S, order) ==
    IF order = << >> THEN << >>
    ELSE IF Head(order) \in S
    THEN << Head(order) >> \o IterateSet(S, Tail(order))
    ELSE IterateSet(S, Tail(order))

\* the weight overwritten instead of added: the variant C10_DecodeRanking must
\* reject
AccumulateLast(symbol_map, symbol, weight) ==
    IF \E i \in DOMAIN symbol_map : symbol_map[i][1] = symbol
    THEN [i \in DOMAIN symbol_map |->
            IF symbol_map[i][1] = symbol THEN << symbol, weight >> ELSE symbol_map[i]]
    ELSE Append(symbol_map, << symbol, weight >>)

\* symbol_map[symbol] = bits[bit] / += bits[bit], keys in first-insertion order
Accumulate(symbol_map, symbol, weight) ==
    IF \E i \in DOMAIN symbol_map : symbol_map[i][1] = symbol
    THEN [i \in DOMAIN symbol_map |->
            IF symbol_map[i][1] = symbol
            THEN << symbol, symbol_map[i][2] + weight >>
            ELSE symbol_map[i]]
    ELSE Append(symbol_map, << symbol, weight >>)

RECURSIVE AccumulateAll(_, _, _)
AccumulateAll(symbol_map, symbol_list, weight) ==
    IF symbol_list = << >> THEN symbol_map
    ELSE AccumulateAll(Accumulate(symbol_map, Head(symbol_list), weight),
                       Tail(symbol_list), weight)

\* symbols.sort(key=lambda x: x[1], reverse=True): stable, heaviest first
InsertByWeight(sorted, pair) ==
    LET before == {i \in DOMAIN sorted : sorted[i][2] >= pair[2]}
        n == IF before = {} THEN 0 ELSE MaxOf(before)
    IN SubSeq(sorted, 1, n) \o << pair >> \o SubSeq(sorted, n + 1, Len(sorted))

RECURSIVE SortByWeight(_)
SortByWeight(pairs) ==
    IF pairs = << >> THEN << >>
    ELSE InsertByWeight(SortByWeight(SubSeq(pairs, 1, Len(pairs) - 1)),
                        pairs[Len(pairs)])

\* SymbolEncoder.decode
RECURSIVE SymDecodeBits(_, _, _, _, _)
SymDecodeBits(symbol_map, e, pattern, i, order) ==
    IF i > Len(pattern) THEN [raised |-> "none", symbol_map |-> symbol_map]
    ELSE IF pattern[i].bit \notin DOMAIN e.bits
    THEN [raised |-> "KeyError", symbol_map |-> symbol_map]
    ELSE SymDecodeBits(AccumulateAll(symbol_map,
                                     IterateSet(e.bits[pattern[i].bit], order),
                                     pattern[i].weight),
                       e, pattern, i + 1, order)

SymDecode(e, pattern, order) ==
    LET got == SymDecodeBits(<< >>, e, pattern, 1, order)
    IN [raised |-> got.raised,
        symbols |-> IF got.raised = "none" THEN SortByWeight(got.symbol_map) ELSE << >>]

-----------------------------------------------------------------------------
(* ESDR *)

\* the keys of ESDR._bits: a bit, or the tuple (bit_label, bit) bundle makes
PlainKey(bit) == [label |-> None, bit |-> bit]

\* the label left out of the key: the variant C22_LabelledBundle must reject
LabelKeyDropped(bit_label, bit) == PlainKey(bit)

LabelKey(bit_label, bit) == [label |-> Some(bit_label), bit |-> bit]

\* sum([bits[bit] for bit in keys])
RECURSIVE SumWeights(_, _)
SumWeights(bits, keys) ==
    IF keys = {} THEN 0
    ELSE LET bit == CHOOSE k \in keys : TRUE
         IN bits[bit] + SumWeights(bits, keys \ {bit})

\* the end of ESDR.__init__: the pattern chosen and the sum of its weights
ESDRInit(bits) == [bits |-> bits, sum_bits |-> SumWeights(bits, DOMAIN bits)]

\* ESDR()
ESDROfNothing == ESDRInit(EmptyDict)

\* ESDR(esdr=other): a deep copy of the other pattern
ESDROfESDR(esdr) == ESDRInit(esdr.bits)

\* ESDR(esdr=[bit, ...]): every bit of the list or set at weight 1.0
ESDROfBits(bit_list) ==
    ESDRInit([key \in {PlainKey(bit) : bit \in Range(bit_list)} |-> One])

\* ESDR.overlap
Overlap(self, esdr) ==
    LET common == DOMAIN self.bits \cap DOMAIN esdr.bits
        least == [bit \in common |-> MinOf({self.bits[bit], esdr.bits[bit]})]
    IN SumWeights(least, common)

\* ESDR.similarity: the quotient overlap / sum_bits as numerator and
\* denominator, 0.0 as 0 / 1
Similarity(self, esdr) ==
    IF self.sum_bits > 0
    THEN [num |-> Overlap(self, esdr), den |-> self.sum_bits]
    ELSE [num |-> 0, den |-> 1]

\* the old weight kept whole and the learnt part added to it: the variant
\* C32_WeightsInUnitInterval must reject
LearnWeightAdded(self, esdr, bit, learn_rate) ==
    IF bit \in DOMAIN esdr.bits /\ bit \in DOMAIN self.bits
    THEN (self.bits[bit] * One) + (learn_rate * esdr.bits[bit])
    ELSE IF bit \notin DOMAIN esdr.bits
    THEN self.bits[bit] * One
    ELSE learn_rate * esdr.bits[bit]

\* the new weight of one bit in ESDR.learn, times One; learn_rate is in units
\* of 1 / One like the weights
LearnWeight(self, esdr, bit, learn_rate) ==
    LET inv_rate == One - learn_rate
    IN IF bit \in DOMAIN esdr.bits /\ bit \in DOMAIN self.bits
       THEN (self.bits[bit] * inv_rate) + (learn_rate * esdr.bits[bit])
       ELSE IF bit \notin DOMAIN esdr.bits
       THEN self.bits[bit] * inv_rate
       ELSE learn_rate * esdr.bits[bit]

\* every new weight is a multiple of 1 / One, so it is the float the code
\* computes
LearnExact(self, esdr, learn_rate) ==
    \A bit \in DOMAIN self.bits \cup DOMAIN esdr.bits :
       LearnWeight(self, esdr, bit, learn_rate) % One = 0

\* keeping the cached sum of the old weights: the variant C16_LearnAverages
\* must reject
LearnSumKept(self, new_bits) == self.sum_bits

\* self._sum_bits = 0.0, then += self._bits[bit] for every bit
LearnSum(self, new_bits) == SumWeights(new_bits, DOMAIN new_bits)

\* ESDR.learn
Learn(self, esdr, learn_rate) ==
    LET all_bits == DOMAIN self.bits \cup DOMAIN esdr.bits
        new_bits == [bit \in all_bits |->
                        LearnWeight(self, esdr, bit, learn_rate) \div One]
    IN [bits |-> new_bits, sum_bits |-> LearnSum(self, new_bits)]

\* the keys of sdr are bits, so that a label makes tuples (bit_label, bit)
PlainKeys(sdr) == \A key \in DOMAIN sdr.bits : key.label = None

\* ESDR.bundle: _sum_bits is not assigned
Bundle(self, sdr, bit_label) ==
    LET labelled == [key \in {LabelKey(bit_label[1], k.bit) : k \in DOMAIN sdr.bits}
                        |-> sdr.bits[PlainKey(key.bit)]]
    IN [self EXCEPT !.bits = IF bit_label # None
                             THEN labelled @@ self.bits
                             ELSE sdr.bits @@ self.bits]

\* random.seed(seed): the module-level generator at the start of the stream
\* of `seed`
Seeded(seed) == [seed |-> seed, drawn |-> 0]

\* the generator after one more random.sample
Advanced(g) == [g EXCEPT !.drawn = @ + 1]

\* random.sample(pool, k) on the generator g, k <= len(pool): a list of k
\* distinct bits of pool that the seed and the draws made so far determine
StreamSample(g, pool, k) ==
    LET population == Ascending(pool)
        offset == (g.seed + g.drawn) % Len(population)
    IN [i \in 1..k |-> population[((offset + i - 1) % Len(population)) + 1]]

\* encoder.encode(symbol, population) drawing from the generator g: the
\* encoder and the generator after the call, what it raised and returned
EncodeOn(e, g, symbol, population) ==
    IF Known(e, symbol)
    THEN [e |-> e, generator |-> g, raised |-> "none",
          pattern |-> SymEncodeReturn(e, symbol)]
    ELSE IF Cardinality(Pool(e, population)) < e.max_nbits
    THEN [e |-> e, generator |-> g, raised |-> "ValueError", pattern |-> << >>]
    ELSE LET sample == StreamSample(g, Pool(e, population), e.max_nbits)
         IN [e |-> Install(e, symbol, sample), generator |-> Advanced(g),
             raised |-> "none", pattern |-> DictOfBits(sample)]

\* Python values are named by strings; the symbols of this set are ints
IntSymbols == {"int:7"}

\* the key None of a dict
NoneSymbol == "None"

\* a row of samdb.symbol_encoder
EncoderRow(encoder_id, encoder_name, e) ==
    [encoder_id |-> encoder_id, encoder_name |-> encoder_name,
     dimension |-> e.dimension, max_nbits |-> e.max_nbits]

\* select_symbol_encoder(where={'encoder_name=': name})
SelectSymbolEncoder(tables, name) ==
    SelectSeq(tables.symbol_encoder, LAMBDA row : row.encoder_name = name)

\* insert_symbol_encoder: encoder_id is the next value of the SERIAL column
InsertSymbolEncoder(tables, name, e) ==
    [tables EXCEPT !.symbol_encoder =
        Append(@, EncoderRow(Len(@) + 1, name, e))]

\* select_symbol_to_bits(encoder_name=name): the rows of the encoders of that
\* name, in the order they were inserted
SelectSymbolToBits(tables, name) ==
    SelectSeq(tables.symbol_to_bits,
              LAMBDA row : \E i \in DOMAIN tables.symbol_encoder :
                              /\ tables.symbol_encoder[i].encoder_id = row.encoder_id
                              /\ tables.symbol_encoder[i].encoder_name = name)

\* insert_symbol_to_bits: one row per bit
InsertSymbolToBits(tables, encoder_id, symbol_int, symbol_str, bit_list) ==
    [tables EXCEPT !.symbol_to_bits =
        @ \o [i \in DOMAIN bit_list |->
                 [encoder_id |-> encoder_id, symbol_int |-> symbol_int,
                  symbol_str |-> symbol_str, bit |-> bit_list[i]]]]

\* symbol = record['symbol_int'] if it is not None, else record['symbol_str']
RowSymbol(row) ==
    IF row.symbol_int # None THEN row.symbol_int[1]
    ELSE IF row.symbol_str # None THEN row.symbol_str[1]
    ELSE NoneSymbol

\* a dict of symbol -> set of bits or of bit -> set of symbols, one more
\* member added under `key`
AddTo(sets, key, member) ==
    IF key \in DOMAIN sets
    THEN [sets EXCEPT ![key] = @ \cup {member}]
    ELSE (key :> {member}) @@ sets

\* persisted_symbol_to_bits of SymbolEncoder.persist
RECURSIVE PersistedSymbolToBits(_)
PersistedSymbolToBits(records) ==
    IF records = << >> THEN EmptyDict
    ELSE LET record == records[Len(records)]
         IN AddTo(PersistedSymbolToBits(SubSeq(records, 1, Len(records) - 1)),
                  RowSymbol(record), record.bit)

\* the body of `for symbol in self._symbols` in SymbolEncoder.persist
PersistSymbol(tables, e, encoder_id, persisted, symbol) ==
    IF symbol \notin DOMAIN persisted
    THEN InsertSymbolToBits(tables, encoder_id,
                            IF symbol \in IntSymbols THEN Some(symbol) ELSE None,
                            IF symbol \in IntSymbols THEN None ELSE Some(symbol),
                            e.symbols[symbol])
    ELSE LET missing_bits == Range(e.symbols[symbol]) \ persisted[symbol]
         IN IF missing_bits # {}
            THEN InsertSymbolToBits(tables, encoder_id, None, None,
                                    Ascending(missing_bits))
            ELSE tables

RECURSIVE PersistSymbols(_, _, _, _, _)
PersistSymbols(tables, e, encoder_id, persisted, symbols) ==
    IF symbols = << >> THEN tables
    ELSE PersistSymbols(PersistSymbol(tables, e, encoder_id, persisted, Head(symbols)),
                        e, encoder_id, persisted, Tail(symbols))

\* SymbolEncoder.persist with a database that answers every query: the tables
\* and _id after the call; `order` is the order of the keys of _symbols
Persist(tables, e, name, order) ==
    LET records == SelectSymbolEncoder(tables, name)
        inserted == InsertSymbolEncoder(tables, name, e)
        symbols == IterateSet(DOMAIN e.symbols, order)
    IN IF Len(records) = 0
       THEN LET encoder_id == SelectSymbolEncoder(inserted, name)[1].encoder_id
            IN [tables |-> PersistSymbols(inserted, e, encoder_id, EmptyDict, symbols),
                id |-> Some(encoder_id)]
       ELSE LET encoder_id == records[1].encoder_id
                persisted == PersistedSymbolToBits(SelectSymbolToBits(tables, name))
            IN [tables |-> PersistSymbols(tables, e, encoder_id, persisted, symbols),
                id |-> Some(encoder_id)]

\* the loop `for record in records` of SymbolEncoder.restore from record i on:
\* `symbol not in self.symbols` tests membership in a bound method and raises
\* TypeError on the first record of an int symbol
RECURSIVE RestoreRecords(_, _, _)
RestoreRecords(acc, records, i) ==
    IF i > Len(records) THEN acc
    ELSE IF records[i].symbol_int # None
    THEN [acc EXCEPT !.raised = "TypeError"]
    ELSE RestoreRecords(
            [acc EXCEPT !.symbols = AddTo(@, RowSymbol(records[i]), records[i].bit),
                        !.bits = AddTo(@, records[i].bit, RowSymbol(records[i]))],
            records, i + 1)

\* SymbolEncoder.restore with a database that answers every query: the
\* encoder and _id after the call and what it raised; a restored codeword is
\* a set, iterated in ascending order
Restore(tables, e, encoder_id, name) ==
    LET records == SelectSymbolEncoder(tables, name)
    IN IF Len(records) = 1
       THEN LET acc == RestoreRecords([symbols |-> EmptyDict, bits |-> EmptyDict,
                                       raised |-> "none"],
                                      SelectSymbolToBits(tables, name), 1)
            IN [e |-> [dimension |-> records[1].dimension,
                       max_nbits |-> records[1].max_nbits,
                       symbols |-> [symbol \in DOMAIN acc.symbols |->
                                       Ascending(acc.symbols[symbol])],
                       bits |-> acc.bits],
                id |-> Some(records[1].encoder_id),
                raised |-> acc.raised]
       ELSE [e |-> e, id |-> encoder_id, raised |-> "none"]

\* encoder.encode(symbol, population) of a SymbolEncoder: for every sample the
\* generator can return, the encoder after the call, what the call raised and
\* the pattern it returned
SymEncodeOutcomes(e, symbol, population) ==
    IF Known(e, symbol)
    THEN {[e |-> e, raised |-> "none", pattern |-> SymEncodeReturn(e, symbol)]}
    ELSE IF Cardinality(Pool(e, population)) < e.max_nbits
    THEN {[e |-> e, raised |-> "ValueError", pattern |-> << >>]}
    ELSE {[e |-> Install(e, symbol, sample), raised |-> "none",
           pattern |-> DictOfBits(sample)]
            : sample \in SampleOutcomes(Pool(e, population), e.max_nbits)}

\* the weight a pattern holds for one of its bits
WeightOf(pattern, bit) ==
    pattern[CHOOSE i \in DOMAIN pattern : pattern[i].bit = bit].weight

\* for bit in value_bit_pattern: self._bits[bit] = value_bit_pattern[bit]
MergePattern(self, value_bit_pattern) ==
    [self EXCEPT !.bits =
        [key \in {PlainKey(bit) : bit \in Keys(value_bit_pattern)}
            |-> WeightOf(value_bit_pattern, key.bit)] @@ self.bits]

\* a value of a data concept: a str, a number, a list of those, or something
\* set_value passes over
StrValue(str) == [kind |-> "str", str |-> str, num |-> 0, items |-> << >>]

NumValue(num) == [kind |-> "num", str |-> "", num |-> num, items |-> << >>]

ListValue(items) == [kind |-> "list", str |-> "", num |-> 0, items |-> items]

NoneValue == [kind |-> "other", str |-> "", num |-> 0, items |-> << >>]

\* the state of a set_value call between two encodes
SetValueStart(self, fe, se, ne) ==
    [self |-> self, field_encoder |-> fe, symbol_encoder |-> se,
     numeric_encoder |-> ne, fields |-> EmptyDict, raised |-> "none"]

\* the value encoded inside the population of its field and merged into self
SetValueEncode(st, fe, field_bit_pattern, field, value, tape) ==
    LET population == Population(Keys(field_bit_pattern))
    IN IF value.kind = "str"
       THEN {IF v.raised # "none"
             THEN [st EXCEPT !.field_encoder = fe, !.symbol_encoder = v.e,
                             !.raised = v.raised]
             ELSE [st EXCEPT !.field_encoder = fe, !.symbol_encoder = v.e,
                             !.fields = (field :> "symbol") @@ st.fields,
                             !.self = MergePattern(st.self, v.pattern)]
               : v \in SymEncodeOutcomes(st.symbol_encoder, value.str, population)}
       ELSE {IF ret.raised # "none"
             THEN [st EXCEPT !.field_encoder = fe,
                             !.numeric_encoder = [ret.e EXCEPT !.raised = "none"],
                             !.raised = ret.raised]
             ELSE [st EXCEPT !.field_encoder = fe,
                             !.numeric_encoder = [ret.e EXCEPT !.raised = "none"],
                             !.fields = (field :> "numeric") @@ st.fields,
                             !.self = MergePattern(st.self, ret.pattern)]
               : ret \in {[e |-> e, raised |-> EncodeReturn(e, value.num).raised,
                           pattern |-> EncodeReturn(e, value.num).pattern]
                            : e \in {EncodeState(st.numeric_encoder, value.num,
                                                 population, tape)}}}

\* one scalar of the data concept: field_encoder.encode(symbol=symbol) gives
\* the population, the value encoder the bits
SetValueItem(st, symbol, field, value, tape) ==
    UNION {IF f.raised # "none"
           THEN {[st EXCEPT !.field_encoder = f.e, !.raised = f.raised]}
           ELSE SetValueEncode(st, f.e, f.pattern, field, value, tape)
             : f \in SymEncodeOutcomes(st.field_encoder, symbol, NoPopulation)}

\* for item_idx in range(len(data_concept[field])), from item_idx on
RECURSIVE SetValueList(_, _, _, _)
SetValueList(states, entry, item_idx, tape) ==
    IF item_idx = Len(entry.value.items) THEN states
    ELSE SetValueList(
            UNION {IF st.raised # "none" THEN {st}
                   ELSE SetValueItem(st, entry.field \o "_" \o ToString(item_idx),
                                     entry.field, entry.value.items[item_idx + 1],
                                     tape)
                     : st \in states},
            entry, item_idx + 1, tape)

\* for field in data_concept, from the first entry of `data_concept` on
RECURSIVE SetValueFields(_, _, _)
SetValueFields(states, data_concept, tape) ==
    IF data_concept = << >> THEN states
    ELSE LET entry == Head(data_concept)
         IN SetValueFields(
               UNION {IF st.raised # "none" THEN {st}
                      ELSE IF entry.value.kind \in {"str", "num"}
                      THEN SetValueItem(st, entry.field, entry.field, entry.value,
                                        tape)
                      ELSE IF entry.value.kind = "list"
                      THEN SetValueList({st}, entry, 0, tape)
                      ELSE {st}
                        : st \in states},
               Tail(data_concept), tape)

\* ESDR.set_value: every outcome of the call; _sum_bits is not assigned
SetValue(self, data_concept, fe, se, ne, tape) ==
    SetValueFields({SetValueStart(self, fe, se, ne)}, data_concept, tape)

-----------------------------------------------------------------------------
(* The calls of a test run *)

\* A call as the test observes it: the operation, its value argument, whether
\* an encode was given a value some earlier encode had returned for, the
\* exception raised, the pattern (returned by encode, given to decode) and what
\* decode returned
NoCall == [op |-> "none", arg |-> << >>, again |-> FALSE, raised |-> "none",
           pattern |-> << >>, returned |-> << >>]

EncodeCall(arg, again, raised, pattern) ==
    [op |-> "encode", arg |-> << arg >>, again |-> again, raised |-> raised,
     pattern |-> pattern, returned |-> << >>]

DecodeCall(arg, raised, pattern, returned) ==
    [op |-> "decode", arg |-> arg, again |-> FALSE, raised |-> raised,
     pattern |-> pattern, returned |-> returned]

\* the encoders the fixtures construct
NumericFixtures ==
    {NumericEncoder(BigDimension, BigSparsityPct, 1),
     NumericEncoder(SmallDimension, SmallSparsityPct, 1),
     NumericEncoder(SmallDimension, SmallSparsityPct, SmallStep)}

SymbolFixtures == {SymbolEncoder(SymDimension, SymSparsityPct)}

\* the population arguments tried: none, a pattern of max_nbits bits (what an
\* encoder of the same sparsity returns), and a pattern one bit short
Populations(max_nbits) ==
    {NoPopulation,
     Population(0 .. (max_nbits - 1)),
     Population(0 .. (max_nbits - 2))}

\* the weighted patterns handed to SymbolEncoder.decode: up to max_nbits
\* distinct bits, each of weight 0.5 or 1.0
Weights == {1, One}

Patterns(dimension, max_nbits) ==
    {p \in UNION {[1..n -> [bit : 0 .. (dimension - 1), weight : Weights]]
                    : n \in 1..max_nbits} :
        \A i, j \in DOMAIN p : p[i].bit = p[j].bit => i = j}

\* every order in which a set of symbols can be iterated
SymbolOrders ==
    {o \in [1..Cardinality(Symbols) -> Symbols] :
        \A i, j \in DOMAIN o : o[i] = o[j] => i = j}

\* the tables create_tables makes, with no row
EmptyStore == [symbol_encoder |-> << >>, symbol_to_bits |-> << >>]

\* the record of an ESDR call: `fresh` tells that self held no bit before it
NoEsdrCall ==
    [op |-> "none", self |-> "", arg |-> << >>, fresh |-> FALSE,
     raised |-> "none", returned |-> << >>]

EsdrCall(op, self, arg, fresh, raised, returned) ==
    [op |-> op, self |-> self, arg |-> arg, fresh |-> fresh,
     raised |-> raised, returned |-> returned]

\* A run constructs one encoder.  The SymbolEncoder runs follow no particular
\* stream: each sample is any list the generator can return.
Init ==
    /\ num_result = NoCall
    /\ num_encodings = EmptyDict
    /\ num_failed = FALSE
    /\ sym_result = NoCall
    /\ sym_encodings = EmptyDict
    /\ \/ /\ numeric_encoder \in {Some(e) : e \in NumericFixtures}
          /\ symbol_encoder = None
          /\ prng \in Tapes
       \/ /\ numeric_encoder = None
          /\ symbol_encoder \in {Some(e) : e \in SymbolFixtures}
          /\ prng = "any"
    /\ esdrs = EmptyDict
    /\ field_encoder = None
    /\ esdr_result = NoEsdrCall
    /\ esdr_calls = 0
    /\ generator = None
    /\ solo_encoder = None
    /\ store = EmptyStore
    /\ symbol_encoder_id = None

\* pattern = numeric_encoder.encode(numeric, population)
NumEncode(numeric, population) ==
    /\ numeric_encoder # None
    /\ \E e \in {EncodeState(numeric_encoder[1], numeric, population, prng)} :
       \E ret \in {EncodeReturn(e, numeric)} :
          /\ numeric_encoder' = Some([e EXCEPT !.raised = "none"])
          /\ num_result' = EncodeCall(numeric, numeric \in DOMAIN num_encodings,
                                      ret.raised, ret.pattern)
          /\ num_encodings' = IF ret.raised = "none" /\ numeric \notin DOMAIN num_encodings
                              THEN (numeric :> ret.pattern) @@ num_encodings
                              ELSE num_encodings
          /\ num_failed' = (num_failed \/ ret.raised # "none")
    /\ UNCHANGED <<symbol_encoder, sym_result, sym_encodings, prng, esdr_vars,
                   rng_vars, store_vars>>

\* numeric_encoder.decode(bits=pattern), pattern being what encode just returned
NumDecode ==
    /\ numeric_encoder # None
    /\ num_result.op = "encode"
    /\ num_result.raised = "none"
    /\ \E got \in {Decode(numeric_encoder[1], num_result.pattern)} :
          num_result' = DecodeCall(num_result.arg, got.raised, num_result.pattern,
                                   IF got.raised = "none"
                                   THEN << got.max_q_value, got.max_weight,
                                           got.distribution >>
                                   ELSE << >>)
    /\ UNCHANGED <<numeric_encoder, num_encodings, num_failed,
                   symbol_encoder, sym_result, sym_encodings, prng, esdr_vars,
                   rng_vars, store_vars>>

\* pattern = symbol_encoder.encode(symbol, population) of a symbol not known
\* yet: random.sample raises ValueError when the pool is smaller than max_nbits
SymEncodeNew(symbol, population) ==
    /\ symbol_encoder # None
    /\ ~Known(symbol_encoder[1], symbol)
    /\ LET e == symbol_encoder[1]
           pool == Pool(e, population)
       IN IF Cardinality(pool) < e.max_nbits
          THEN /\ sym_result' = EncodeCall(symbol, FALSE, "ValueError", << >>)
               /\ UNCHANGED <<symbol_encoder, sym_encodings>>
          ELSE \E sample \in SampleOutcomes(pool, e.max_nbits) :
                 LET e1 == Install(e, symbol, sample)
                     ret == SymEncodeReturn(e1, symbol)
                 IN /\ symbol_encoder' = Some(e1)
                    /\ sym_result' = EncodeCall(symbol, symbol \in DOMAIN sym_encodings,
                                             "none", ret)
                    /\ sym_encodings' =
                          IF symbol \notin DOMAIN sym_encodings
                          THEN (symbol :> [pattern |-> ret, population |-> population])
                               @@ sym_encodings
                          ELSE sym_encodings
    /\ UNCHANGED <<numeric_encoder, num_result, num_encodings, num_failed, prng,
                   esdr_vars, rng_vars, store_vars>>

\* pattern = symbol_encoder.encode(symbol, population) of a known symbol
SymEncodeKnown(symbol, population) ==
    /\ symbol_encoder # None
    /\ Known(symbol_encoder[1], symbol)
    /\ sym_result' = EncodeCall(symbol, symbol \in DOMAIN sym_encodings, "none",
                                SymEncodeReturn(symbol_encoder[1], symbol))
    /\ UNCHANGED <<symbol_encoder, sym_encodings,
                   numeric_encoder, num_result, num_encodings, num_failed, prng,
                   esdr_vars, rng_vars, store_vars>>

\* symbol_encoder.decode(bits=pattern)
SymDecodeCall(pattern, order) ==
    /\ symbol_encoder # None
    /\ \E got \in {SymDecode(symbol_encoder[1], pattern, order)} :
          sym_result' = DecodeCall(<< >>, got.raised, pattern, got.symbols)
    /\ UNCHANGED <<symbol_encoder, sym_encodings,
                   numeric_encoder, num_result, num_encodings, num_failed, prng,
                   esdr_vars, rng_vars, store_vars>>

\* the calls made on the encoder the fixture constructed
NumericCalls ==
    /\ numeric_encoder # None
    /\ \/ \E numeric \in NumericInputs :
            \E population \in Populations(numeric_encoder[1].max_nbits) :
               NumEncode(numeric, population)
       \/ NumDecode

SymbolCalls ==
    /\ symbol_encoder # None
    /\ \/ \E symbol \in Symbols :
            \E population \in Populations(symbol_encoder[1].max_nbits) :
               SymEncodeNew(symbol, population) \/ SymEncodeKnown(symbol, population)
       \/ \E pattern \in Patterns(symbol_encoder[1].dimension,
                                  symbol_encoder[1].max_nbits),
             order \in SymbolOrders :
            SymDecodeCall(pattern, order)

Next == NumericCalls \/ SymbolCalls

Spec == Init /\ [][Next]_vars

-----------------------------------------------------------------------------
(* The calls of a run with numbers of either sign *)

\* the numbers encoded: -MaxMagnitude .. MaxMagnitude
MaxMagnitude == 3

SignedInputs == (0 - MaxMagnitude) .. MaxMagnitude

\* the quantise_step arguments tried: 1 and MaxQuantStep
MaxQuantStep == 2

QuantSteps == {1, MaxQuantStep}

\* one NumericEncoder constructed with one of the steps
QuantInit ==
    /\ num_result = NoCall
    /\ num_encodings = EmptyDict
    /\ num_failed = FALSE
    /\ sym_result = NoCall
    /\ sym_encodings = EmptyDict
    /\ numeric_encoder \in {Some(NumericEncoder(SmallDimension, SmallSparsityPct, q_step))
                              : q_step \in QuantSteps}
    /\ symbol_encoder = None
    /\ prng \in Tapes
    /\ esdrs = EmptyDict
    /\ field_encoder = None
    /\ esdr_result = NoEsdrCall
    /\ esdr_calls = 0
    /\ generator = None
    /\ solo_encoder = None
    /\ store = EmptyStore
    /\ symbol_encoder_id = None

\* numeric_encoder.encode(numeric)
QuantNext == \E numeric \in SignedInputs : NumEncode(numeric, NoPopulation)

QuantSpec == QuantInit /\ [][QuantNext]_vars

-----------------------------------------------------------------------------
(* The calls of an ESDR run *)

\* the ESDR objects of a run
EsdrNames == {"a", "b"}

\* the arguments tried
BitLists == {<< 0 >>, << 0, EsdrDimension - 1 >>}

LearnRates == {0, 1, One}

BitLabels == {None, Some("x"), Some("y")}

Entry(field, value) == [field |-> field, value |-> value]

DataConcepts ==
    {<< Entry("f", StrValue("hello")) >>,
     << Entry("g", StrValue("hello")) >>,
     << Entry("g", NoneValue), Entry("f", NumValue(80)) >>,
     << Entry("f", ListValue(<< StrValue("goodbye") >>)) >>}

\* two empty ESDRs and the three encoders of set_value
EsdrInit ==
    /\ num_result = NoCall
    /\ num_encodings = EmptyDict
    /\ num_failed = FALSE
    /\ sym_result = NoCall
    /\ sym_encodings = EmptyDict
    /\ numeric_encoder = Some(NumericEncoder(EsdrDimension, EsdrSparsityPct, 1))
    /\ symbol_encoder = Some(SymbolEncoder(EsdrDimension, EsdrSparsityPct))
    /\ field_encoder = Some(SymbolEncoder(EsdrDimension, EsdrSparsityPct))
    /\ prng \in Tapes
    /\ esdrs = [name \in EsdrNames |-> ESDROfNothing]
    /\ esdr_result = NoEsdrCall
    /\ esdr_calls = 0
    /\ generator = None
    /\ solo_encoder = None
    /\ store = EmptyStore
    /\ symbol_encoder_id = None

EncodersUnchanged ==
    UNCHANGED <<numeric_encoder, num_result, num_encodings, num_failed,
                symbol_encoder, sym_result, sym_encodings, prng, field_encoder,
                rng_vars, store_vars>>

Fresh(name) == DOMAIN esdrs[name].bits = {}

\* name = ESDR(), name = ESDR(bit_list)
EsdrConstruct(name, made, arg) ==
    /\ esdr_calls < MaxEsdrCalls
    /\ esdrs' = [esdrs EXCEPT ![name] = made]
    /\ esdr_result' = EsdrCall("construct", name, arg, TRUE, "none", << >>)
    /\ esdr_calls' = esdr_calls + 1
    /\ EncodersUnchanged

\* name = ESDR(esdr=esdrs[source]), and copy(esdrs[source])
EsdrCopy(name, source) ==
    /\ esdr_calls < MaxEsdrCalls
    /\ esdrs' = [esdrs EXCEPT ![name] = ESDROfESDR(esdrs[source])]
    /\ esdr_result' = EsdrCall("copy", name, << source >>, TRUE, "none", << >>)
    /\ esdr_calls' = esdr_calls + 1
    /\ EncodersUnchanged

\* esdrs[self].learn(esdrs[other], learn_rate)
EsdrLearn(self, other, learn_rate) ==
    /\ esdr_calls < MaxEsdrCalls
    /\ LearnExact(esdrs[self], esdrs[other], learn_rate)
    /\ esdrs' = [esdrs EXCEPT ![self] = Learn(esdrs[self], esdrs[other], learn_rate)]
    /\ esdr_result' = EsdrCall("learn", self, << other, learn_rate >>, Fresh(self),
                               "none", << >>)
    /\ esdr_calls' = esdr_calls + 1
    /\ EncodersUnchanged

\* esdrs[self].bundle(esdrs[sdr], bit_label), sdr being another object
EsdrBundle(self, sdr, bit_label) ==
    /\ esdr_calls < MaxEsdrCalls
    /\ self # sdr
    /\ bit_label # None => PlainKeys(esdrs[sdr])
    /\ esdrs' = [esdrs EXCEPT ![self] = Bundle(esdrs[self], esdrs[sdr], bit_label)]
    /\ esdr_result' = EsdrCall("bundle", self, << sdr, bit_label >>, Fresh(self),
                               "none", << >>)
    /\ esdr_calls' = esdr_calls + 1
    /\ EncodersUnchanged

\* esdrs[self].set_value(data_concept, field_encoder, symbol_encoder,
\* numeric_encoder)
EsdrSetValue(self, data_concept) ==
    /\ esdr_calls < MaxEsdrCalls
    /\ \E st \in SetValue(esdrs[self], data_concept, field_encoder[1],
                          symbol_encoder[1], numeric_encoder[1], prng) :
          /\ esdrs' = [esdrs EXCEPT ![self] = st.self]
          /\ field_encoder' = Some(st.field_encoder)
          /\ symbol_encoder' = Some(st.symbol_encoder)
          /\ numeric_encoder' = Some(st.numeric_encoder)
          /\ esdr_result' = EsdrCall("set_value", self, data_concept, Fresh(self),
                                     st.raised,
                                     IF st.raised = "none" THEN st.fields ELSE << >>)
    /\ esdr_calls' = esdr_calls + 1
    /\ UNCHANGED <<num_result, num_encodings, num_failed,
                   sym_result, sym_encodings, prng, rng_vars, store_vars>>

\* esdrs[self].similarity(esdrs[other])
EsdrSimilarity(self, other) ==
    /\ esdr_calls < MaxEsdrCalls
    /\ esdr_result' = EsdrCall("similarity", self, << other >>, Fresh(self), "none",
                               Similarity(esdrs[self], esdrs[other]))
    /\ esdr_calls' = esdr_calls + 1
    /\ UNCHANGED esdrs
    /\ EncodersUnchanged

EsdrConstructions ==
    \E name \in EsdrNames :
       \/ EsdrConstruct(name, ESDROfNothing, << >>)
       \/ \E bit_list \in BitLists :
             EsdrConstruct(name, ESDROfBits(bit_list), bit_list)
       \/ \E source \in EsdrNames : EsdrCopy(name, source)

EsdrCalls ==
    \E self \in EsdrNames :
       \/ \E other \in EsdrNames, learn_rate \in LearnRates :
             EsdrLearn(self, other, learn_rate)
       \/ \E sdr \in EsdrNames, bit_label \in BitLabels :
             EsdrBundle(self, sdr, bit_label)
       \/ \E data_concept \in DataConcepts : EsdrSetValue(self, data_concept)
       \/ \E other \in EsdrNames : EsdrSimilarity(self, other)

EsdrNext == EsdrConstructions \/ EsdrCalls

EsdrSpec == EsdrInit /\ [][EsdrNext]_vars

-----------------------------------------------------------------------------
(* The calls of a run with arguments of any value *)

\* the arguments tried: a dimension and a quantise_step that are negative,
\* zero and positive, a sparsity (in percent) that is negative, zero, in
\* (0, 1] and above 1, a learn_rate that is negative, 0.0, 1.0 and above 1
AnyDimensions == {0 - 1, 0, EsdrDimension}

AnySparsities == {0 - EsdrSparsityPct, 0, EsdrSparsityPct, 100 + EsdrSparsityPct}

AnySteps == {0 - 1, 0, 1}

AnyRates == {0 - One, 0, One, One + One}

\* the number of learn calls of a run
MaxAnyLearns == 1

ConstructCall(arg, raised) ==
    [op |-> "construct", arg |-> arg, again |-> FALSE, raised |-> raised,
     pattern |-> << >>, returned |-> << >>]

\* no encoder yet, and two ESDRs constructed from lists of bits
AnyInit ==
    /\ num_result = NoCall
    /\ num_encodings = EmptyDict
    /\ num_failed = FALSE
    /\ sym_result = NoCall
    /\ sym_encodings = EmptyDict
    /\ numeric_encoder = None
    /\ symbol_encoder = None
    /\ field_encoder = None
    /\ prng = "any"
    /\ esdrs \in [EsdrNames -> {ESDROfBits(bit_list) : bit_list \in BitLists}]
    /\ esdr_result = NoEsdrCall
    /\ esdr_calls = 0
    /\ generator = None
    /\ solo_encoder = None
    /\ store = EmptyStore
    /\ symbol_encoder_id = None

\* numeric_encoder = NumericEncoder(dimension, sparsity, quantise_step)
AnyNumericEncoder(dimension, sparsity_pct, quantise_step) ==
    /\ numeric_encoder' = Some(NumericEncoder(dimension, sparsity_pct, quantise_step))
    /\ num_result' = ConstructCall(<< dimension, sparsity_pct, quantise_step >>, "none")
    /\ UNCHANGED <<num_encodings, num_failed, symbol_encoder, sym_result,
                   sym_encodings, prng, esdr_vars, rng_vars, store_vars>>

\* symbol_encoder = SymbolEncoder(database, name, dimension=dimension,
\* sparsity=sparsity)
AnySymbolEncoder(dimension, sparsity_pct) ==
    /\ symbol_encoder' = Some(SymbolEncoder(dimension, sparsity_pct))
    /\ sym_result' = ConstructCall(<< dimension, sparsity_pct >>, "none")
    /\ UNCHANGED <<numeric_encoder, num_result, num_encodings, num_failed,
                   sym_encodings, prng, esdr_vars, rng_vars, store_vars>>

\* esdrs[self].learn(esdrs[other], learn_rate)
AnyLearn(self, other, learn_rate) ==
    /\ esdr_calls < MaxAnyLearns
    /\ EsdrLearn(self, other, learn_rate)

AnyNext ==
    \/ \E dimension \in AnyDimensions, sparsity_pct \in AnySparsities,
          quantise_step \in AnySteps :
          AnyNumericEncoder(dimension, sparsity_pct, quantise_step)
    \/ \E dimension \in AnyDimensions, sparsity_pct \in AnySparsities :
          AnySymbolEncoder(dimension, sparsity_pct)
    \/ \E self \in EsdrNames, other \in EsdrNames, learn_rate \in AnyRates :
          AnyLearn(self, other, learn_rate)

AnySpec == AnyInit /\ [][AnyNext]_vars

-----------------------------------------------------------------------------
(* The calls of a run with several encoders *)

\* the seed argument left at its default
DefaultSeed == 123

\* the seeds other encoders are constructed with
OtherSeeds == {DefaultSeed, DefaultSeed + 1}

\* one SymbolEncoder constructed, and the run that is to make the same encode
\* calls on it with no other encoder around
RngInit ==
    /\ num_result = NoCall
    /\ num_encodings = EmptyDict
    /\ num_failed = FALSE
    /\ sym_result = NoCall
    /\ sym_encodings = EmptyDict
    /\ numeric_encoder = None
    /\ symbol_encoder \in {Some(e) : e \in SymbolFixtures}
    /\ prng = "any"
    /\ esdrs = EmptyDict
    /\ field_encoder = None
    /\ esdr_result = NoEsdrCall
    /\ esdr_calls = 0
    /\ generator = Some(Seeded(DefaultSeed))
    /\ solo_encoder = Some([encoder |-> symbol_encoder[1],
                            generator |-> Seeded(DefaultSeed)])
    /\ store = EmptyStore
    /\ symbol_encoder_id = None

\* symbol_encoder.encode(symbol, population), in both runs
RngEncode(symbol, population) ==
    /\ \E run \in {EncodeOn(symbol_encoder[1], generator[1], symbol, population)} :
       \E solo \in {EncodeOn(solo_encoder[1].encoder, solo_encoder[1].generator,
                             symbol, population)} :
          /\ symbol_encoder' = Some(run.e)
          /\ generator' = Some(run.generator)
          /\ solo_encoder' = Some([encoder |-> solo.e, generator |-> solo.generator])
          /\ sym_result' = EncodeCall(symbol, symbol \in DOMAIN sym_encodings,
                                      run.raised, run.pattern)
          /\ sym_encodings' =
                IF run.raised = "none" /\ symbol \notin DOMAIN sym_encodings
                THEN (symbol :> [pattern |-> run.pattern, population |-> population])
                     @@ sym_encodings
                ELSE sym_encodings
    /\ UNCHANGED <<numeric_encoder, num_result, num_encodings, num_failed, prng,
                   esdr_vars, store_vars>>

\* SymbolEncoder(dimension, sparsity, seed) or NumericEncoder(...) constructed
\* in the first run: __init__ ends with random.seed(seed)
RngConstructOther(seed) ==
    /\ field_encoder' = Some(SymbolEncoder(SymDimension, SymSparsityPct))
    /\ generator' = Some(Seeded(seed))
    /\ UNCHANGED <<numeric_encoder, num_result, num_encodings, num_failed,
                   symbol_encoder, sym_result, sym_encodings, prng,
                   esdrs, esdr_result, esdr_calls, solo_encoder, store_vars>>

\* the other encoder of the first run asked to encode
RngEncodeOther(symbol) ==
    /\ field_encoder # None
    /\ \E run \in {EncodeOn(field_encoder[1], generator[1], symbol, NoPopulation)} :
          /\ field_encoder' = Some(run.e)
          /\ generator' = Some(run.generator)
    /\ UNCHANGED <<numeric_encoder, num_result, num_encodings, num_failed,
                   symbol_encoder, sym_result, sym_encodings, prng,
                   esdrs, esdr_result, esdr_calls, solo_encoder, store_vars>>

RngNext ==
    \/ \E symbol \in Symbols :
          \E population \in Populations(symbol_encoder[1].max_nbits) :
             RngEncode(symbol, population)
    \/ \E seed \in OtherSeeds : RngConstructOther(seed)
    \/ \E symbol \in Symbols : RngEncodeOther(symbol)

RngSpec == RngInit /\ [][RngNext]_vars

-----------------------------------------------------------------------------
(* The calls of a run with a database *)

\* the name of the encoder under test
EncoderName == "test"

\* the symbols encoded: a str and an int
StoreSymbols == {"hello"} \cup IntSymbols

\* every order in which the keys of _symbols can have been inserted
StoreOrders ==
    {o \in [1..Cardinality(StoreSymbols) -> StoreSymbols] :
        \A i, j \in DOMAIN o : o[i] = o[j] => i = j}

StoreCall(op, raised) ==
    [op |-> op, arg |-> << >>, again |-> FALSE, raised |-> raised,
     pattern |-> << >>, returned |-> << >>]

\* SymbolEncoder(database, name, restore=False, ...) and empty tables
StoreInit ==
    /\ num_result = NoCall
    /\ num_encodings = EmptyDict
    /\ num_failed = FALSE
    /\ sym_result = NoCall
    /\ sym_encodings = EmptyDict
    /\ numeric_encoder = None
    /\ symbol_encoder = Some(SymbolEncoder(StoreDimension, StoreSparsityPct))
    /\ prng = "any"
    /\ esdrs = EmptyDict
    /\ field_encoder = None
    /\ esdr_result = NoEsdrCall
    /\ esdr_calls = 0
    /\ generator = None
    /\ solo_encoder = None
    /\ store = EmptyStore
    /\ symbol_encoder_id = None

StoreFrame ==
    UNCHANGED <<numeric_encoder, num_result, num_encodings, num_failed,
                sym_encodings, prng, esdr_vars, rng_vars>>

\* error = symbol_encoder.persist()
StorePersist(order) ==
    /\ \E saved \in {Persist(store, symbol_encoder[1], EncoderName, order)} :
          /\ Len(saved.tables.symbol_to_bits) <= MaxStoreRows
          /\ store' = saved.tables
          /\ symbol_encoder_id' = saved.id
    /\ sym_result' = StoreCall("persist", "none")
    /\ UNCHANGED symbol_encoder
    /\ StoreFrame

\* error = symbol_encoder.restore()
StoreRestore ==
    /\ \E got \in {Restore(store, symbol_encoder[1], symbol_encoder_id, EncoderName)} :
          /\ symbol_encoder' = Some(got.e)
          /\ symbol_encoder_id' = got.id
          /\ sym_result' = StoreCall("restore", got.raised)
    /\ UNCHANGED store
    /\ StoreFrame

StoreNext ==
    \/ \E symbol \in StoreSymbols :
          SymEncodeNew(symbol, NoPopulation) \/ SymEncodeKnown(symbol, NoPopulation)
    \/ \E order \in StoreOrders : StorePersist(order)
    \/ StoreRestore

StoreSpec == StoreInit /\ [][StoreNext]_vars

-----------------------------------------------------------------------------
(* The calls of a run that constructs the encoder again *)

\* symbol_encoder = SymbolEncoder(database, name, restore=False, ...): a new
\* object of the same name, with no symbols and no _id
StoreConstruct ==
    /\ symbol_encoder' = Some(SymbolEncoder(StoreDimension, StoreSparsityPct))
    /\ symbol_encoder_id' = None
    /\ sym_result' = StoreCall("construct", "none")
    /\ sym_encodings' = EmptyDict
    /\ UNCHANGED <<store, numeric_encoder, num_result, num_encodings, num_failed,
                   prng, esdr_vars, rng_vars>>

AnewNext ==
    \/ \E symbol \in StoreSymbols :
          SymEncodeNew(symbol, NoPopulation) \/ SymEncodeKnown(symbol, NoPopulation)
    \/ \E order \in StoreOrders : StorePersist(order)
    \/ StoreConstruct

AnewSpec == StoreInit /\ [][AnewNext]_vars

-----------------------------------------------------------------------------
(* Properties of the NumericEncoder codebook *)

\* the levels of the codebook
Levels(e) == DOMAIN e.q_value

\* the list positions at which two codewords differ
DiffPositions(a, b) == {i \in DOMAIN a : a[i] # b[i]}

\* the last call was an encode that returned a pattern
NumReturned ==
    numeric_encoder # None /\ num_result.op = "encode" /\ num_result.raised = "none"

\* a downward extension has installed a level below the cold-start window
ExtendedDownward(e) == e.lower_bit_index # LowerBitIndexInit

\* C1: after successful encode calls only, the codewords of two levels of the
\* codebook d quantisation steps apart, d in 0..max_nbits, share exactly
\* max_nbits - d bits.
C1_SharedExactly ==
    (numeric_encoder # None /\ ~num_failed) =>
        LET e == numeric_encoder[1]
            bits_of == [q \in Levels(e) |-> Range(e.q_value[q])]
        IN \A q \in Levels(e) : \A d \in 0 .. e.max_nbits :
              (q + d * e.q_step) \in Levels(e) =>
                 Cardinality(bits_of[q] \cap bits_of[q + d * e.q_step]) = e.max_nbits - d

\* C2: the codewords of two adjacent levels of the codebook differ in exactly
\* one list position.
C2_AdjacentDifferInOnePosition ==
    numeric_encoder # None =>
        LET e == numeric_encoder[1]
        IN \A q \in Levels(e) :
              (q + e.q_step) \in Levels(e) =>
                 Cardinality(DiffPositions(e.q_value[q], e.q_value[q + e.q_step])) = 1

\* C2 witness: one input was encoded and then a lower one, whose encode
\* extended the codebook downward; the lowest level of the cold-start window and
\* the level created just below it differ at the position the downward rotation
\* starts from.
C2_Witness ==
    /\ numeric_encoder # None
    /\ ~num_failed
    /\ Cardinality(DOMAIN num_encodings) = 2
    /\ LET e == numeric_encoder[1]
           edge == Quantise(e, MaxOf(DOMAIN num_encodings)) - QStepRange(e)
       IN /\ ExtendedDownward(e)
          /\ edge \in Levels(e)
          /\ (edge - e.q_step) \in Levels(e)
          /\ DiffPositions(e.q_value[edge - e.q_step], e.q_value[edge])
                = {LowerBitIndexInit + 1}

\* the positions rewritten on the way from level q1 up to level q2
RewrittenBetween(e, q1, q2) ==
    UNION {DiffPositions(e.q_value[q], e.q_value[q + e.q_step]) :
             q \in {l \in Levels(e) : q1 <= l /\ l < q2}}

\* C3: after successful encode calls only, between two levels of the codebook
\* at least max_nbits quantisation steps apart every codeword position has
\* been rewritten, on either side of the cold-start level and across it.
C3_AllPositionsRewritten ==
    (numeric_encoder # None /\ ~num_failed) =>
        LET e == numeric_encoder[1]
        IN \A q1, q2 \in Levels(e) :
              q2 - q1 >= e.max_nbits * e.q_step =>
                 RewrittenBetween(e, q1, q2) = 1 .. e.max_nbits

\* C4: when encode(x) returns, the codebook holds every level
\* q(x) + i * q_step for i in -(max_nbits - 1) .. (max_nbits - 1).
C4_WindowCovered ==
    NumReturned =>
        LET e == numeric_encoder[1]
            q == Quantise(e, num_result.arg[1])
        IN \A i \in (1 - e.max_nbits) .. (e.max_nbits - 1) :
              (q + i * e.q_step) \in Levels(e)

\* C4 witness: encode returned for an input whose window starts at the lowest
\* level of the codebook, a level a downward extension created.
C4_Witness ==
    /\ NumReturned
    /\ ExtendedDownward(numeric_encoder[1])
    /\ Quantise(numeric_encoder[1], num_result.arg[1]) - QStepRange(numeric_encoder[1])
          = numeric_encoder[1].lower_q_value[1]

\* the number of quantisation steps between the levels of two inputs
StepsApart(e, x, y) ==
    LET qx == Quantise(e, x)
        qy == Quantise(e, y)
    IN (IF qx >= qy THEN qx - qy ELSE qy - qx) \div e.q_step

\* C5: the patterns encode returned for two inputs whose levels are d steps
\* apart, d <= max_nbits - 1, share at least max_nbits - d bits.
C5_SharedAtLeast ==
    numeric_encoder # None =>
        LET e == numeric_encoder[1]
        IN \A x, y \in DOMAIN num_encodings :
              StepsApart(e, x, y) <= e.max_nbits - 1 =>
                 Cardinality(Keys(num_encodings[x]) \cap Keys(num_encodings[y]))
                    >= e.max_nbits - StepsApart(e, x, y)

\* C5 witness: two inputs on different levels less than max_nbits steps apart
\* have both been encoded, the lower one by a downward extension.
C5_Witness ==
    /\ numeric_encoder # None
    /\ LET e == numeric_encoder[1]
       IN /\ ExtendedDownward(e)
          /\ \E x, y \in DOMAIN num_encodings :
                /\ x < y
                /\ StepsApart(e, x, y) \in 1 .. (e.max_nbits - 1)
                /\ Quantise(e, x) - QStepRange(e) = e.lower_q_value[1]

-----------------------------------------------------------------------------
(* Properties of both encoders *)

\* the last call was a SymbolEncoder.encode that returned a pattern
SymReturned ==
    symbol_encoder # None /\ sym_result.op = "encode" /\ sym_result.raised = "none"

\* a list of exactly max_nbits pairwise distinct bits
IsCodeword(bit_list, max_nbits) ==
    Len(bit_list) = max_nbits /\ Cardinality(Range(bit_list)) = max_nbits

\* a pattern of exactly max_nbits keys, each of weight 1.0
IsSparsePattern(pattern, max_nbits) ==
    /\ Len(pattern) = max_nbits
    /\ Cardinality(Keys(pattern)) = max_nbits
    /\ \A i \in DOMAIN pattern : pattern[i].weight = One

\* C6: every symbols[s] and every q_value[q] holds exactly max_nbits pairwise
\* distinct bits, and every pattern encode returns has exactly max_nbits keys,
\* each of weight 1.0.
C6_Sparsity ==
    /\ numeric_encoder # None =>
          \A q \in Levels(numeric_encoder[1]) :
             IsCodeword(numeric_encoder[1].q_value[q], numeric_encoder[1].max_nbits)
    /\ NumReturned => IsSparsePattern(num_result.pattern, numeric_encoder[1].max_nbits)
    /\ symbol_encoder # None =>
          \A s \in DOMAIN symbol_encoder[1].symbols :
             IsCodeword(symbol_encoder[1].symbols[s], symbol_encoder[1].max_nbits)
    /\ SymReturned => IsSparsePattern(sym_result.pattern, symbol_encoder[1].max_nbits)

\* C6 witness: encode returned the pattern of the second symbol the encoder
\* knows, drawn from a population of exactly max_nbits bits.
C6_Witness ==
    /\ SymReturned
    /\ Cardinality(DOMAIN symbol_encoder[1].symbols) = 2
    /\ ~sym_result.again
    /\ sym_encodings[sym_result.arg[1]].population.given

\* the codewords installed in one state are the codewords of the next
CodewordsKept ==
    /\ numeric_encoder # None =>
          \A q \in Levels(numeric_encoder[1]) :
             /\ q \in Levels(numeric_encoder'[1])
             /\ numeric_encoder'[1].q_value[q] = numeric_encoder[1].q_value[q]
    /\ symbol_encoder # None =>
          \A s \in DOMAIN symbol_encoder[1].symbols :
             /\ s \in DOMAIN symbol_encoder'[1].symbols
             /\ symbol_encoder'[1].symbols[s] = symbol_encoder[1].symbols[s]

\* an encode of a value encoded before returns the bit set of the first encode
SameAsFirst ==
    /\ (NumReturned /\ num_result.again) =>
          Keys(num_result.pattern) = Keys(num_encodings[num_result.arg[1]])
    /\ (SymReturned /\ sym_result.again) =>
          Keys(sym_result.pattern) = Keys(sym_encodings[sym_result.arg[1]].pattern)

\* C7: every encode(v) after the first returns the bit set of the first,
\* whatever was encoded in between and whatever population is passed, and no
\* call changes or removes a codeword already installed.
C7_EncodeIdempotent == [](SameAsFirst) /\ [][CodewordsKept]_vars

\* C7 witness: an input is encoded again after all three inputs have been
\* encoded and the codebook has been extended downward.
C7_Witness ==
    /\ NumReturned
    /\ num_result.again
    /\ DOMAIN num_encodings = NumericInputs
    /\ ExtendedDownward(numeric_encoder[1])

\* C8: decode(encode(x)) returns q(x) as its first element, for every input x
\* encoded so far.
C8_DecodeOfEncode ==
    (numeric_encoder # None /\ num_result.op = "decode" /\ num_result.raised = "none") =>
        num_result.returned[1] = Some(Quantise(numeric_encoder[1], num_result.arg[1]))

-----------------------------------------------------------------------------
(* Properties of SymbolEncoder.decode *)

\* the last call was a SymbolEncoder.decode that returned a list
SymDecoded ==
    symbol_encoder # None /\ sym_result.op = "decode" /\ sym_result.raised = "none"

\* C9: when every known symbol was drawn from the default pool, decode of the
\* pattern encode returns for a known symbol s has (s, max_nbits) first.
C9_DecodeFirstEntry ==
    (/\ SymDecoded
     /\ \A s \in DOMAIN sym_encodings : ~sym_encodings[s].population.given) =>
        \A s \in DOMAIN symbol_encoder[1].symbols :
           sym_result.pattern = SymEncodeReturn(symbol_encoder[1], s) =>
              /\ sym_result.returned # << >>
              /\ sym_result.returned[1] = << s, symbol_encoder[1].max_nbits * One >>

\* the sum of pattern[b] over the bits b of the pattern that are in bits
RECURSIVE WeightOn(_, _)
WeightOn(pattern, bits) ==
    IF pattern = << >> THEN 0
    ELSE (IF Head(pattern).bit \in bits THEN Head(pattern).weight ELSE 0)
         + WeightOn(Tail(pattern), bits)

\* C10: decode returns one pair for each known symbol with a bit in the
\* pattern, weighted by the sum of pattern[b] over its bits in the pattern, in
\* order of non-increasing weight.
C10_DecodeRanking ==
    SymDecoded =>
        LET e == symbol_encoder[1]
            got == sym_result.returned
            hit == {s \in DOMAIN e.symbols :
                      Range(e.symbols[s]) \cap Keys(sym_result.pattern) # {}}
        IN /\ Len(got) = Cardinality(hit)
           /\ {got[i][1] : i \in DOMAIN got} = hit
           /\ \A i \in DOMAIN got :
                 got[i][2] = WeightOn(sym_result.pattern, Range(e.symbols[got[i][1]]))
           /\ \A i, j \in DOMAIN got : i < j => got[i][2] >= got[j][2]

\* C10 witness: decode ranked two symbols of different weight, the heavier one
\* first although the first bit of the pattern belongs to the lighter one only.
C10_Witness ==
    /\ SymDecoded
    /\ Len(sym_result.returned) = 2
    /\ sym_result.returned[1][2] > sym_result.returned[2][2]
    /\ symbol_encoder[1].bits[sym_result.pattern[1].bit] = {sym_result.returned[2][1]}

-----------------------------------------------------------------------------
(* Properties of the pool and of the failure paths *)

\* the keys of the pattern an encode step returned lie in the pool of the call:
\* [0, dimension) without a population, the population's keys with one
KeysInPool ==
    /\ symbol_encoder # None =>
          \A symbol \in Symbols :
             \A population \in Populations(symbol_encoder[1].max_nbits) :
                ((SymEncodeNew(symbol, population) \/ SymEncodeKnown(symbol, population))
                   /\ sym_result'.raised = "none")
                   => Keys(sym_result'.pattern) \subseteq Pool(symbol_encoder[1], population)
    /\ numeric_encoder # None =>
          \A numeric \in NumericInputs :
             \A population \in Populations(numeric_encoder[1].max_nbits) :
                (NumEncode(numeric, population) /\ num_result'.raised = "none")
                   => Keys(num_result'.pattern) \subseteq Pool(numeric_encoder[1], population)

\* C11: every key of a pattern encode returns lies in [0, dimension) when no
\* population is given and in the key set of the population when one is given,
\* also for a symbol or level an earlier call installed from another pool.
C11_KeysInPool == [][KeysInPool]_vars

\* the bits of a pattern that are keys of a reverse index
RECURSIVE KnownBits(_, _)
KnownBits(pattern, bits) ==
    IF pattern = << >> THEN << >>
    ELSE IF Head(pattern).bit \in DOMAIN bits
    THEN << Head(pattern) >> \o KnownBits(Tail(pattern), bits)
    ELSE KnownBits(Tail(pattern), bits)

\* C18: decode of a pattern holding a bit no codeword has used does not fail:
\* it returns what decode of the pattern without that bit returns.
C18_UnknownBitSkipped ==
    /\ (symbol_encoder # None /\ sym_result.op = "decode") =>
          /\ sym_result.raised = "none"
          /\ \E order \in SymbolOrders :
                sym_result.returned =
                   SymDecode(symbol_encoder[1],
                             KnownBits(sym_result.pattern, symbol_encoder[1].bits),
                             order).symbols
    /\ (numeric_encoder # None /\ num_result.op = "decode") =>
          num_result.raised = "none"

\* an encode step that raised for one of the two causes: ValueError is the
\* sample from too small a population; IndexError on a codeword longer than the
\* initial lower_bit_index is the choice from an empty list
EncodeFailed ==
    /\ numeric_encoder # None
    /\ num_result'.op = "encode"
    /\ \/ num_result'.raised = "ValueError"
       \/ /\ num_result'.raised = "IndexError"
          /\ numeric_encoder[1].max_nbits > LowerBitIndexInit

\* C19: a NumericEncoder.encode call that fails leaves q_value, bits,
\* lower_q_value, upper_q_value, lower_bit_index and upper_bit_index as they
\* were before the call.
C19_FailedEncodeRolledBack ==
    [][EncodeFailed => numeric_encoder' = numeric_encoder]_vars

-----------------------------------------------------------------------------
(* Properties of ESDR *)

\* a data concept of one field whose value is a str
OneStr(data_concept) ==
    /\ Len(data_concept) = 1
    /\ data_concept[1].value.kind = "str"

\* the last call was a set_value that returned
SetValueReturned(call) == call.op = "set_value" /\ call.raised = "none"

\* the codeword of every str value the last set_value merged lies in the
\* codeword of its field
MergedFromField ==
    SetValueReturned(esdr_result) =>
       \A i \in DOMAIN esdr_result.arg :
          esdr_result.arg[i].value.kind = "str" =>
             Range(symbol_encoder[1].symbols[esdr_result.arg[i].value.str])
                \subseteq Range(field_encoder[1].symbols[esdr_result.arg[i].field])

\* two empty ESDRs filled one after the other with the same str under two
\* fields whose populations are disjoint do not hold the same bits
FilledApart ==
    (/\ SetValueReturned(esdr_result) /\ esdr_result.fresh
     /\ SetValueReturned(esdr_result') /\ esdr_result'.fresh
     /\ esdr_result.self # esdr_result'.self
     /\ OneStr(esdr_result.arg) /\ OneStr(esdr_result'.arg)
     /\ esdr_result.arg[1].value = esdr_result'.arg[1].value
     /\ esdr_result.arg[1].field # esdr_result'.arg[1].field
     /\ Range(field_encoder'[1].symbols[esdr_result.arg[1].field])
           \cap Range(field_encoder'[1].symbols[esdr_result'.arg[1].field]) = {})
    => DOMAIN esdrs'[esdr_result.self].bits # DOMAIN esdrs'[esdr_result'.self].bits

\* C12: set_value({f: v}) and set_value({g: v}) with the same encoders take the
\* bits of v from the population of their own field, so the two ESDRs do not
\* end up with the same bit set.
C12_FieldAware == [][MergedFromField' /\ FilledApart]_vars

\* C13: in every reachable state the cached sum_bits of an ESDR equals the sum
\* of the weights its bits() holds.
C13_SumBitsCached ==
    \A name \in DOMAIN esdrs :
       esdrs[name].sum_bits = SumWeights(esdrs[name].bits, DOMAIN esdrs[name].bits)

\* C14: a.similarity(a) returns 1 for every ESDR a whose sum_bits is greater
\* than 0.
C14_SelfSimilarity ==
    (/\ esdr_result.op = "similarity"
     /\ esdr_result.arg = << esdr_result.self >>
     /\ esdrs[esdr_result.self].sum_bits > 0)
    => esdr_result.returned.num = esdr_result.returned.den

\* the step is self.learn(other, learn_rate) for some self and other
LearnStep(learn_rate) ==
    /\ esdr_result'.op = "learn"
    /\ esdr_result'.arg[2] = learn_rate

\* C15: self.learn(other, 0) leaves self unchanged: the same keys, the same
\* weights and the same sum_bits as before the call.
C15_LearnNothing ==
    [][LearnStep(0) => esdrs'[esdr_result'.self] = esdrs[esdr_result'.self]]_vars

\* the weight of a bit, an absent bit counted as 0
Weighted(esdr, bit) == IF bit \in DOMAIN esdr.bits THEN esdr.bits[bit] ELSE 0

\* what learn is to do to self, given the two patterns before the call
Averaged(old_self, other, new_self, learn_rate) ==
    /\ DOMAIN new_self.bits = DOMAIN old_self.bits \cup DOMAIN other.bits
    /\ \A bit \in DOMAIN new_self.bits :
          new_self.bits[bit] * One =
             ((One - learn_rate) * Weighted(old_self, bit))
                + (learn_rate * Weighted(other, bit))
    /\ new_self.sum_bits = SumWeights(new_self.bits, DOMAIN new_self.bits)
    /\ learn_rate = One =>
          \A bit \in DOMAIN other.bits : new_self.bits[bit] = other.bits[bit]

LearnAverages ==
    \A learn_rate \in LearnRates :
       LearnStep(learn_rate) =>
          LET self == esdr_result'.self
              other == esdr_result'.arg[1]
          IN /\ Averaged(esdrs[self], esdrs[other], esdrs'[self], learn_rate)
             /\ esdrs'[other].bits = esdrs[other].bits
             /\ other # self => esdrs'[other] = esdrs[other]

\* C16: self.learn(other, rate) sets every bit of keys(self) \cup keys(other) to
\* (1 - rate) * old_self[b] + rate * other[b], an absent bit counting 0, leaves
\* other unchanged and sets sum_bits to the sum of the new weights; after
\* learn(other, 1) every bit of other has in self the weight it has in other.
C16_LearnAverages == [][LearnAverages]_vars

\* a learn at rate 0.5 has left a weight of 0.5 in self, whose cached sum was
\* stale before the call or not
C16_Witness ==
    /\ esdr_result.op = "learn"
    /\ esdr_result.arg[2] = 1
    /\ esdr_result.arg[1] # esdr_result.self
    /\ \E bit \in DOMAIN esdrs[esdr_result.self].bits :
          esdrs[esdr_result.self].bits[bit] = 1

-----------------------------------------------------------------------------
(* Properties of the generator *)

\* C17: the bits an encoder assigns depend only on its constructor arguments
\* and on its own encode calls: the codebook is the one of the run that makes
\* the same encode calls while no other encoder is constructed or asked to
\* encode.
C17_OwnStream ==
    (symbol_encoder # None /\ solo_encoder # None) =>
       symbol_encoder[1].symbols = solo_encoder[1].encoder.symbols

-----------------------------------------------------------------------------
(* Properties of persist and restore *)

\* the reverse index holds, for every bit, the symbols whose codeword has it
ReverseIndexOf(e) ==
    /\ DOMAIN e.bits = UNION {Range(e.symbols[symbol]) : symbol \in DOMAIN e.symbols}
    /\ \A bit \in DOMAIN e.bits :
          e.bits[bit] = {symbol \in DOMAIN e.symbols : bit \in Range(e.symbols[symbol])}

\* the encoder after restore is the encoder persist saved
Restored(saved, e) ==
    /\ e.dimension = saved.dimension
    /\ e.max_nbits = saved.max_nbits
    /\ DOMAIN e.symbols = DOMAIN saved.symbols
    /\ \A symbol \in DOMAIN saved.symbols :
          /\ Range(e.symbols[symbol]) = Range(saved.symbols[symbol])
          /\ Keys(SymEncodeReturn(e, symbol)) = Keys(SymEncodeReturn(saved, symbol))
    /\ ReverseIndexOf(e)

\* C20: restore of a SymbolEncoder whose state persist has saved returns with
\* the same dimension, max_nbits and symbol to bit-set mapping, for str and
\* int symbols, and a reverse index consistent with it, so that encode of a
\* symbol encoded before returns the same bits.
C20_RestoreInvertsPersist ==
    [][(sym_result.op = "persist" /\ sym_result'.op = "restore")
          => /\ sym_result'.raised = "none"
             /\ Restored(symbol_encoder[1], symbol_encoder'[1])]_vars

-----------------------------------------------------------------------------
(* Properties of the indexes and of the window bounds *)

\* an encode of an unknown symbol with a population of fewer than max_nbits
\* bits raises and leaves the encoder as it was
SmallPoolRejected ==
    symbol_encoder # None =>
       \A symbol \in Symbols :
          \A population \in Populations(symbol_encoder[1].max_nbits) :
             (/\ SymEncodeNew(symbol, population)
              /\ population.given
              /\ Cardinality(population.keys) < symbol_encoder[1].max_nbits)
             => /\ sym_result'.raised # "none"
                /\ symbol_encoder' = symbol_encoder
                /\ ~Known(symbol_encoder'[1], symbol)

\* an encode of an unknown symbol with a pool of max_nbits bits or more
\* returns and makes the symbol known
LargePoolAccepted ==
    symbol_encoder # None =>
       \A symbol \in Symbols :
          \A population \in Populations(symbol_encoder[1].max_nbits) :
             (/\ SymEncodeNew(symbol, population)
              /\ population.given =>
                    Cardinality(population.keys) >= symbol_encoder[1].max_nbits)
             => /\ sym_result'.raised = "none"
                /\ Known(symbol_encoder'[1], symbol)

\* C25: SymbolEncoder.encode of an unknown symbol with a population of fewer
\* than max_nbits bits fails and leaves symbols and bits unchanged, so the
\* symbol stays unknown and a later encode with a large enough pool succeeds.
C25_SmallPoolRejected == [][SmallPoolRejected /\ LargePoolAccepted]_vars

\* a symbol is known, and the encode of another one has just been rejected
C25_Witness ==
    /\ symbol_encoder # None
    /\ sym_result.op = "encode"
    /\ sym_result.raised = "ValueError"
    /\ ~Known(symbol_encoder[1], sym_result.arg[1])
    /\ DOMAIN symbol_encoder[1].symbols # {}

\* the number of times a level occurs in a list of levels
Occurrences(levels, q) == Cardinality({i \in DOMAIN levels : levels[i] = q})

\* C26: for every bit b, the list bits[b] of a NumericEncoder holds exactly the
\* levels whose codeword contains b, each once.
C26_ReverseIndexLevels ==
    numeric_encoder # None =>
       LET e == numeric_encoder[1]
       IN /\ DOMAIN e.bits = UNION {Range(e.q_value[q]) : q \in DOMAIN e.q_value}
          /\ \A bit \in DOMAIN e.bits :
                /\ Range(e.bits[bit]) =
                      {q \in DOMAIN e.q_value : bit \in Range(e.q_value[q])}
                /\ \A q \in Range(e.bits[bit]) : Occurrences(e.bits[bit], q) = 1

\* C27: in every SymbolEncoder state, s is in bits[b] exactly when b is in
\* symbols[s], and bits has a key for b exactly when some symbol uses b.
C27_ReverseIndexConsistent ==
    symbol_encoder # None => ReverseIndexOf(symbol_encoder[1])

\* two symbols are known and there is a bit both use
C27_Witness ==
    /\ symbol_encoder # None
    /\ \E bit \in DOMAIN symbol_encoder[1].bits :
          Cardinality(symbol_encoder[1].bits[bit]) = 2

\* C28: a NumericEncoder starts with upper_bit_index = 0 and lower_bit_index =
\* max_nbits - 1, and both indices are positions of a codeword, in
\* [0, max_nbits), in every reachable state.
C28_IndexesInCodeword ==
    numeric_encoder # None =>
       LET e == numeric_encoder[1]
       IN /\ e.upper_bit_index \in 0 .. (e.max_nbits - 1)
          /\ e.lower_bit_index \in 0 .. (e.max_nbits - 1)
          /\ (e.q_value = EmptyDict /\ e.lower_q_value = None) =>
                /\ e.upper_bit_index = 0
                /\ e.lower_bit_index = e.max_nbits - 1

\* the cold start of the spec: the sample at the lowest level, one replacement
\* per higher level
ColdStarted(e, q_value, sample) ==
    LET start == q_value - QStepRange(e)
    IN /\ e.lower_q_value = Some(start)
       /\ e.upper_q_value = Some(q_value + QStepRange(e))
       /\ e.q_value[start] = sample
       /\ \A q \in DOMAIN e.q_value \ {start} :
             Cardinality(DiffPositions(e.q_value[q], e.q_value[q - e.q_step])) = 1
       /\ e.upper_bit_index = (2 * (e.max_nbits - 1)) % e.max_nbits
       /\ e.lower_bit_index = e.max_nbits - 1

FirstEncode ==
    (numeric_encoder # None /\ numeric_encoder[1].q_value = EmptyDict) =>
       \A numeric \in NumericInputs :
          \A population \in Populations(numeric_encoder[1].max_nbits) :
             (NumEncode(numeric, population) /\ num_result'.raised = "none")
             => ColdStarted(numeric_encoder'[1],
                            Quantise(numeric_encoder[1], numeric),
                            Sample(Pool(numeric_encoder[1], population),
                                   numeric_encoder[1].max_nbits, prng))

\* C29: the first successful encode(x) on an empty NumericEncoder installs the
\* sampled codeword unchanged at q(x) - R and makes every higher level up to
\* q(x) + R by one replacement: 2 * (max_nbits - 1) replacements, after which
\* upper_bit_index = (2 * (max_nbits - 1)) mod max_nbits, lower_bit_index =
\* max_nbits - 1, lower_q_value = q(x) - R and upper_q_value = q(x) + R.
C29_ColdStart == [][FirstEncode]_vars

\* C30: lower_q_value and upper_q_value are both null exactly when the
\* codebook is empty; otherwise they are its lowest and highest level and the
\* codebook holds every level between them, also after an encode that raised.
C30_WindowBounds ==
    numeric_encoder # None =>
       LET e == numeric_encoder[1]
       IN IF e.q_value = EmptyDict
          THEN e.lower_q_value = None /\ e.upper_q_value = None
          ELSE /\ e.lower_q_value # None
               /\ e.upper_q_value # None
               /\ e.lower_q_value[1] = MinOf(DOMAIN e.q_value)
               /\ e.upper_q_value[1] = MaxOf(DOMAIN e.q_value)
               /\ \A q \in DOMAIN e.q_value :
                     q < e.upper_q_value[1] => (q + e.q_step) \in DOMAIN e.q_value

-----------------------------------------------------------------------------
(* Properties of bundle and of the copy of an ESDR *)

\* the key a bundle puts the weight of a key of sdr under: the tuple
\* (bit_label, bit), or the key itself when there is no label
KeyUnder(bit_label, key) ==
    IF bit_label = None THEN key ELSE [label |-> bit_label, bit |-> key.bit]

KeysUnder(bit_label, sdr) == {KeyUnder(bit_label, key) : key \in DOMAIN sdr.bits}

\* the step is self.bundle(other, bit_label) and does what the label asks
BundleStep ==
    esdr_result'.op = "bundle" =>
       LET before == esdrs[esdr_result'.self]
           after == esdrs'[esdr_result'.self]
           other == esdrs[esdr_result'.arg[1]]
           bit_label == esdr_result'.arg[2]
       IN /\ esdrs'[esdr_result'.arg[1]] = other
          /\ DOMAIN after.bits = DOMAIN before.bits \cup KeysUnder(bit_label, other)
          /\ \A key \in DOMAIN other.bits :
                after.bits[KeyUnder(bit_label, key)] = other.bits[key]
          /\ \A key \in DOMAIN before.bits \ KeysUnder(bit_label, other) :
                after.bits[key] = before.bits[key]
          /\ bit_label # None =>
                \A label \in BitLabels \ {None, bit_label} :
                   KeysUnder(label, other) \cap KeysUnder(bit_label, other) = {}

\* C22: self.bundle(other, label) adds the key (label, b) at other's weight for
\* every bit b of other, keeps every other key of self at its weight and
\* leaves other unchanged; two different labels give disjoint sets of keys,
\* and a bundle without a label overwrites the weight of a bit already present.
C22_LabelledBundle == [][BundleStep]_vars

\* a bit of self is held under two labels, the second one just bundled
C22_Witness ==
    /\ esdr_result.op = "bundle"
    /\ esdr_result.arg[2] # None
    /\ \E key \in DOMAIN esdrs[esdr_result.self].bits :
          /\ key.label # None
          /\ key.label # esdr_result.arg[2]
          /\ [label |-> esdr_result.arg[2], bit |-> key.bit]
                \in DOMAIN esdrs[esdr_result.self].bits

\* the copy has the keys, the weights and the sum of its source
CopyOfSource ==
    esdr_result'.op = "copy" =>
       /\ esdrs'[esdr_result'.self].bits = esdrs[esdr_result'.arg[1]].bits
       /\ esdrs'[esdr_result'.self].sum_bits = esdrs[esdr_result'.arg[1]].sum_bits

\* a call on one ESDR leaves every other one as it was
OthersKept ==
    \A name \in EsdrNames :
       (esdr_result'.op \in {"learn", "bundle", "set_value"} /\ esdr_result'.self # name)
       => esdrs'[name] = esdrs[name]

\* C23: an ESDR constructed from another one has the keys, weights and
\* sum_bits of its source at that moment, and a later learn, bundle or
\* set_value on either of the two leaves the other's bits and sum_bits as
\* they were.
C23_CopyOfSource == [][CopyOfSource /\ OthersKept]_vars

-----------------------------------------------------------------------------
(* Properties of the quantisation *)

\* floor(numeric / q_step) * q_step: the largest multiple of q_step that is
\* less than or equal to numeric
FloorLevel(numeric, q_step) == (numeric \div q_step) * q_step

\* C21: for every numeric input, positive, zero or negative, encode returns
\* the codeword of the level floor(x / q_step) * q_step.
C21_FloorLevel ==
    NumReturned =>
       LET e == numeric_encoder[1]
           q == FloorLevel(num_result.arg[1], e.q_step)
       IN /\ q \in DOMAIN e.q_value
          /\ num_result.pattern = DictOfBits(e.q_value[q])

-----------------------------------------------------------------------------
(* Properties of the arguments *)

\* a call with the error InvalidParameter that leaves the object as it was
Rejected(result, before, after) ==
    result.raised = "InvalidParameter" /\ after = before

\* a constructor call with a dimension that is not positive, a sparsity
\* outside (0, 1] or a quantise_step that is not positive is rejected
InvalidEncoderRejected ==
    /\ (/\ num_result'.op = "construct"
        /\ num_result' # num_result
        /\ \/ num_result'.arg[1] <= 0
           \/ num_result'.arg[2] <= 0
           \/ num_result'.arg[2] > 100
           \/ num_result'.arg[3] <= 0)
       => Rejected(num_result', numeric_encoder, numeric_encoder')
    /\ (/\ sym_result'.op = "construct"
        /\ sym_result' # sym_result
        /\ \/ sym_result'.arg[1] <= 0
           \/ sym_result'.arg[2] <= 0
           \/ sym_result'.arg[2] > 100)
       => Rejected(sym_result', symbol_encoder, symbol_encoder')

\* a learn with a rate outside [0, 1] is rejected
InvalidRateRejected ==
    (/\ esdr_result'.op = "learn"
     /\ esdr_calls' # esdr_calls
     /\ \/ esdr_result'.arg[2] < 0
        \/ esdr_result'.arg[2] > One)
    => Rejected(esdr_result', esdrs, esdrs')

\* C24: constructing an encoder with a non-positive dimension, a sparsity
\* outside (0, 1] or a non-positive q_step, and calling ESDR.learn with a rate
\* outside [0, 1], raises InvalidParameter and changes no state.
C24_InvalidRejected == [][InvalidEncoderRejected /\ InvalidRateRejected]_vars

-----------------------------------------------------------------------------
(* Properties of set_value with numbers, of the weights and of persist *)

\* the window of the value is not in the codebook yet
WindowMissing(e, numeric) ==
    \/ (Quantise(e, numeric) + QStepRange(e)) \notin DOMAIN e.q_value
    \/ (Quantise(e, numeric) - QStepRange(e)) \notin DOMAIN e.q_value

\* the entry is a number the numeric encoder has to extend its codebook for
NumberToInstall(entry) ==
    /\ entry.value.kind = "num"
    /\ field_encoder[1].max_nbits = numeric_encoder[1].max_nbits
    /\ WindowMissing(numeric_encoder[1], entry.value.num)

\* the codeword of the number came out of the codeword of its field and is
\* in the ESDR
NumberMerged(entry) ==
    LET ne == numeric_encoder'[1]
        q_value == Quantise(ne, entry.value.num)
    IN /\ esdr_result'.raised = "none"
       /\ entry.field \in DOMAIN esdr_result'.returned
       /\ esdr_result'.returned[entry.field] = "numeric"
       /\ q_value \in DOMAIN ne.q_value
       /\ Cardinality(Range(ne.q_value[q_value])) = ne.max_nbits
       /\ Range(ne.q_value[q_value])
             \subseteq Range(field_encoder'[1].symbols[entry.field])
       /\ \A bit \in Range(ne.q_value[q_value]) :
             PlainKey(bit) \in DOMAIN esdrs'[esdr_result'.self].bits

SetValueOfNumber ==
    (esdr_result'.op = "set_value" /\ esdr_calls' # esdr_calls) =>
       \A i \in DOMAIN esdr_result'.arg :
          NumberToInstall(esdr_result'.arg[i]) => NumberMerged(esdr_result'.arg[i])

\* C31: set_value on a record with a number field, with a field encoder and a
\* numeric encoder of the same max_nbits and a codebook that does not cover
\* the window of the number, returns, reports the field as 'numeric' and
\* merges max_nbits bits of the field's population into the ESDR.
C31_SetValueOfNumber == [][SetValueOfNumber]_vars

\* C32: after any sequence of constructions from bits or by copy, set_value,
\* bundle and learn with a rate in [0, 1], every weight in bits() is in
\* [0, 1].
C32_WeightsInUnitInterval ==
    \A name \in DOMAIN esdrs :
       \A key \in DOMAIN esdrs[name].bits :
          esdrs[name].bits[key] \in 0 .. One

\* a learn has just left a weight strictly between 0 and 1
C32_Witness ==
    /\ esdr_result.op = "learn"
    /\ \E key \in DOMAIN esdrs[esdr_result.self].bits :
          /\ esdrs[esdr_result.self].bits[key] > 0
          /\ esdrs[esdr_result.self].bits[key] < One

\* the rows a persist step has written
RowsWritten ==
    SubSeq(store'.symbol_to_bits, Len(store.symbol_to_bits) + 1,
           Len(store'.symbol_to_bits))

\* the symbols the store holds rows for
StoredSymbols(tables) ==
    {RowSymbol(tables.symbol_to_bits[i]) : i \in DOMAIN tables.symbol_to_bits}

\* no two rows of symbol_to_bits are the same encoder, symbol and bit
NoDuplicateRows(tables) ==
    \A i, j \in DOMAIN tables.symbol_to_bits :
       tables.symbol_to_bits[i] = tables.symbol_to_bits[j] => i = j

\* a persist straight after a persist writes nothing, and a persist writes
\* rows for symbols without rows only
PersistStep ==
    sym_result'.op = "persist" =>
       /\ sym_result.op = "persist" => store' = store
       /\ Len(store.symbol_encoder) > 0 => store'.symbol_encoder = store.symbol_encoder
       /\ \A i \in DOMAIN RowsWritten :
             RowSymbol(RowsWritten[i]) \notin StoredSymbols(store)
       /\ NoDuplicateRows(store')

\* C33: a second persist with no encode in between writes no encoder row and
\* no symbol_to_bits row; a persist after new encodes writes rows for the
\* symbols not yet stored only, so that the store never holds the same
\* (symbol, bit) row twice for one encoder.
C33_PersistOnce == [][PersistStep]_vars

====
